---- MODULE Spec2Model ----
(***************************************************************************)
(* A model of the byml crate: the Byml document tree (src/src/lib.rs) and  *)
(* the binary writer (src/src/write.rs).  Strings are sequences of bytes,  *)
(* 32- and 64-bit float payloads are tuples of bytes (most significant     *)
(* byte first), the sink is the byte vector behind the Cursor.             *)
(***************************************************************************)
EXTENDS Integers, Sequences, FiniteSets, TLC

VARIABLES doc, endian, version, pc, ret, parsed, other, out,
          stream, delivered, loader

vars ==
    <<doc, endian, version, pc, ret, parsed, other, out, stream, delivered, loader>>

\* no parse is under way: no events, and a loader as load_from_str makes it
NoFeed ==
    /\ stream = <<>>
    /\ delivered = 0
    /\ loader = [docs |-> <<>>, doc_stack |-> <<>>, key_stack |-> <<>>,
                 panicked |-> FALSE]

(***************************************************************************)
(* Bounds of the model.                                                    *)
(***************************************************************************)
\* the largest number of nodes of an input document
MaxNodes == 3

\* the largest number of nodes of each of the two subtrees of a document of
\* ShareDocs
MaxShareNodes == 3

(***************************************************************************)
(* Small helpers.                                                          *)
(***************************************************************************)
Min(a, b) == IF a < b THEN a ELSE b

Range(s) == {s[i] : i \in 1..Len(s)}

Reverse(s) == [i \in 1..Len(s) |-> s[Len(s) + 1 - i]]

RECURSIVE Concat(_)
Concat(ss) == IF ss = <<>> THEN <<>> ELSE Head(ss) \o Concat(Tail(ss))

(***************************************************************************)
(* lib.rs: the Byml enum.  A node is <<variant, payload>>.                  *)
(* A Hash payload is the BTreeMap's iteration sequence: [k, v] records in  *)
(* strictly increasing key order.  A Float or Double payload is            *)
(* [bits, endian].                                                         *)
(***************************************************************************)
Byml_Null == <<"Null", <<>>>>

Byml_String(s) == <<"String", s>>

Byml_Binary(b) == <<"Binary", b>>

Byml_Array(a) == <<"Array", a>>

Byml_Hash(h) == <<"Hash", h>>

Byml_Bool(b) == <<"Bool", b>>

Byml_Int(i) == <<"Int", i>>

Byml_Float(bits, e) == <<"Float", [bits |-> bits, endian |-> e]>>

Byml_UInt(u) == <<"UInt", u>>

Byml_Int64(i) == <<"Int64", i>>

Byml_UInt64(u) == <<"UInt64", u>>

Byml_Double(bits, e) == <<"Double", [bits |-> bits, endian |-> e]>>

Endian == {"Big", "Little"}

\* String's Ord: byte-lexicographic order
StrLess(a, b) ==
    \E i \in 1..(Min(Len(a), Len(b)) + 1) :
        /\ \A j \in 1..(i - 1) : a[j] = b[j]
        /\ IF i > Len(a) THEN i <= Len(b)
           ELSE i <= Len(b) /\ a[i] < b[i]

is_container(n) == n[1] \in {"Hash", "Array"}

is_value(n) == n[1] \in {"Int", "UInt", "Float", "Bool"}

is_string(n) == n[1] = "String"

is_null(n) == n[1] = "Null"

\* NodeType as its wire tag (lib.rs NodeType, write.rs Into<u8> for &NodeType)
NodeTypeTag(ty) ==
    CASE ty = "String" -> 160
      [] ty = "Binary" -> 161
      [] ty = "Array" -> 192
      [] ty = "Hash" -> 193
      [] ty = "StringTable" -> 194
      [] ty = "Bool" -> 208
      [] ty = "Int" -> 209
      [] ty = "Float" -> 210
      [] ty = "UInt" -> 211
      [] ty = "Int64" -> 212
      [] ty = "UInt64" -> 213
      [] ty = "Double" -> 214
      [] ty = "Null" -> 255

get_type(n) == n[1]

\* u32::to_be_bytes / from_be_bytes and the _le_ pair, on a bit pattern held
\* most significant byte first
to_be_bytes(bits) == bits

from_be_bytes(bytes) == bytes

to_le_bytes(bits) == Reverse(bits)

from_le_bytes(bytes) == Reverse(bytes)

\* the conversion with the little-endian pair mismatched
FloatInto_mismatched(f) ==
    IF f.endian = "Big" THEN from_be_bytes(to_be_bytes(f.bits))
    ELSE from_be_bytes(to_le_bytes(f.bits))

\* Into<f32> for &Float, Into<f64> for &Double: the IEEE value, as its bits
FloatInto(f) ==
    IF f.endian = "Big" THEN from_be_bytes(to_be_bytes(f.bits))
    ELSE from_le_bytes(to_le_bytes(f.bits))

\* IEEE-754 ==, on bit patterns of width 4 (f32, 8 exponent bits) or 8 (f64,
\* 11 exponent bits): NaN equals nothing, the two zeros are equal
IsNaN(b) ==
    IF Len(b) = 4
    THEN b[1] % 128 = 127 /\ b[2] >= 128
         /\ (b[2] % 128 # 0 \/ \E i \in 3..4 : b[i] # 0)
    ELSE b[1] % 128 = 127 /\ b[2] >= 240
         /\ (b[2] % 16 # 0 \/ \E i \in 3..8 : b[i] # 0)

IsZero(b) == b[1] % 128 = 0 /\ \A i \in 2..Len(b) : b[i] = 0

IeeeEq(a, b) ==
    /\ ~IsNaN(a)
    /\ ~IsNaN(b)
    /\ (a = b \/ (IsZero(a) /\ IsZero(b)))

\* impl PartialEq for Byml
RECURSIVE eq(_, _)
eq(a, b) ==
    CASE a[1] = "Array" ->
           /\ b[1] = "Array"
           /\ Len(a[2]) = Len(b[2])
           /\ \A i \in 1..Len(a[2]) : eq(a[2][i], b[2][i])
      [] a[1] = "Hash" ->
           /\ b[1] = "Hash"
           /\ Len(a[2]) = Len(b[2])
           /\ \A i \in 1..Len(a[2]) :
                a[2][i].k = b[2][i].k /\ eq(a[2][i].v, b[2][i].v)
      [] a[1] \in {"Float", "Double"} ->
           b[1] = a[1] /\ IeeeEq(FloatInto(a[2]), FloatInto(b[2]))
      [] a[1] = "Null" -> is_null(b)
      [] OTHER -> b[1] = a[1] /\ a[2] = b[2]

(***************************************************************************)
(* The input documents: every tree of at most MaxNodes nodes over the      *)
(* leaves and keys below.                                                  *)
(***************************************************************************)
StrA == <<97>>

StrAB == <<97, 98>>

StrB == <<98>>

Keys == {StrA, StrB}

\* the bits of 1.0f32 and of 1.0f64
F32One == <<63, 128, 0, 0>>

F64One == <<63, 240, 0, 0, 0, 0, 0, 0>>

\* one node of every variant that is neither Array, Hash nor Null
Scalars ==
    { Byml_Bool(TRUE), Byml_Int(-2), Byml_UInt(3), Byml_Float(F32One, "Big"),
      Byml_String(StrAB), Byml_Binary(<<7>>), Byml_Int64(-5), Byml_UInt64(6),
      Byml_Double(F64One, "Little") }

\* the leaves of the documents: Null, one node of every other variant that
\* is no container, and a second String, one that is also a key
Leaves == Scalars \cup {Byml_Null, Byml_String(StrA)}

RECURSIVE Size(_), SizeAll(_)
Size(n) ==
    CASE n[1] = "Array" -> 1 + SizeAll(n[2])
      [] n[1] = "Hash" -> 1 + SizeAll([i \in 1..Len(n[2]) |-> n[2][i].v])
      [] OTHER -> 1

SizeAll(s) == IF s = <<>> THEN 0 ELSE Size(Head(s)) + SizeAll(Tail(s))

\* the strictly increasing key sequences of length k
KeySeqs(k) ==
    {ks \in [1..k -> Keys] : \A i \in 1..(k - 1) : StrLess(ks[i], ks[i + 1])}

HashOf(ks, f) == Byml_Hash([i \in 1..Len(f) |-> [k |-> ks[i], v |-> f[i]]])

\* the trees of at most n nodes with leaves in L, and the sequences of trees
\* of at most m nodes in all
RECURSIVE Trees(_, _), Forests(_, _)
Trees(n, L) ==
    IF n <= 0 THEN {}
    ELSE L
         \cup {Byml_Array(f) : f \in Forests(n - 1, L)}
         \cup UNION {{HashOf(ks, f) : ks \in KeySeqs(Len(f))} : f \in Forests(n - 1, L)}

Forests(m, L) ==
    {<<>>} \cup
    UNION {{<<t>> \o f : t \in {x \in Trees(s, L) : Size(x) = s},
                         f \in Forests(m - s, L)}
             : s \in 1..m}

Docs == Trees(MaxNodes, Leaves)

(***************************************************************************)
(* Integers on the wire and in the hasher.                                 *)
(***************************************************************************)
\* the w low bytes of the two's complement of n, least significant first
RECURSIVE LeBytes(_, _)
LeBytes(n, w) ==
    IF w = 0 THEN <<>> ELSE <<n % 256>> \o LeBytes(n \div 256, w - 1)

\* binwrite of an integer of w bytes under the writer's endian option
IntBytes(n, w, e) == IF e = "Little" THEN LeBytes(n, w) ELSE Reverse(LeBytes(n, w))

\* binwrite of an f32/f64 whose bits are held most significant byte first
FloatBytes(bits, e) == IF e = "Big" THEN bits ELSE Reverse(bits)

\* impl BinWrite for U24
U24Bytes(n, e) == IntBytes(n, 3, e)

(***************************************************************************)
(* write.rs calculate_hash: DefaultHasher over the bytes that              *)
(* #[derive(Hash)] feeds it.  The model keeps the byte stream itself as    *)
(* the hash value, so two nodes have one hash exactly when they feed the   *)
(* hasher the same bytes.                                                  *)
(***************************************************************************)
\* position of a variant in `enum Byml`, hashed as an isize
Discriminant(ty) ==
    CASE ty = "Null" -> 0
      [] ty = "String" -> 1
      [] ty = "Binary" -> 2
      [] ty = "Array" -> 3
      [] ty = "Hash" -> 4
      [] ty = "Bool" -> 5
      [] ty = "Int" -> 6
      [] ty = "Float" -> 7
      [] ty = "UInt" -> 8
      [] ty = "Int64" -> 9
      [] ty = "UInt64" -> 10
      [] ty = "Double" -> 11

\* #[derive(Hash)] on `enum Endian`
EndianFeed(e) == LeBytes(IF e = "Big" THEN 0 ELSE 1, 8)

\* #[derive(Hash)] on Byml, Float and Double: the discriminant, then the
\* fields.  str feeds its bytes and 0xFF, Vec its length and its elements,
\* BTreeMap its (key, value) pairs in order and no length (std as of the
\* seek_convenience feature gate of lib.rs), Float/Double the stored bits
\* and the endian tag.
RECURSIVE HashFeed(_)
HashFeed(n) ==
    LeBytes(Discriminant(n[1]), 8) \o
    CASE n[1] = "Null" -> <<>>
      [] n[1] = "String" -> n[2] \o <<255>>
      [] n[1] = "Binary" -> LeBytes(Len(n[2]), 8) \o n[2]
      [] n[1] = "Array" ->
           LeBytes(Len(n[2]), 8) \o Concat([i \in 1..Len(n[2]) |-> HashFeed(n[2][i])])
      [] n[1] = "Hash" ->
           Concat([i \in 1..Len(n[2]) |->
                     n[2][i].k \o <<255>> \o HashFeed(n[2][i].v)])
      [] n[1] = "Bool" -> <<IF n[2] THEN 1 ELSE 0>>
      [] n[1] \in {"Int", "UInt"} -> LeBytes(n[2], 4)
      [] n[1] \in {"Int64", "UInt64"} -> LeBytes(n[2], 8)
      [] n[1] \in {"Float", "Double"} -> Reverse(n[2].bits) \o EndianFeed(n[2].endian)

\* calculate_hash: DefaultHasher::finish is taken to be injective on what it
\* is fed, so the u64 is modelled by the bytes fed
calculate_hash(t) == HashFeed(t)

(***************************************************************************)
(* write.rs collect_strings / collect_keys.  An IndexSet is a sequence     *)
(* without repetitions, in insertion order.                                *)
(***************************************************************************)
IndexSetInsert(s, x) == IF x \in Range(s) THEN s ELSE Append(s, x)

RECURSIVE IndexSetExtend(_, _)
IndexSetExtend(s, xs) ==
    IF xs = <<>> THEN s
    ELSE IndexSetExtend(IndexSetInsert(s, Head(xs)), Tail(xs))

\* IndexSet::get_index_of(..).unwrap(): the 0-based position (-1: not there)
get_index_of(s, x) ==
    IF x \in Range(s) THEN (CHOOSE i \in 1..Len(s) : s[i] = x) - 1 ELSE -1

\* a sort in decreasing order
SortLessReversed(a, b) == StrLess(b, a)

\* the order par_sort sorts by: String's Ord
SortLess(a, b) == StrLess(a, b)

\* IndexSet::par_sort
RECURSIVE par_sort(_)
par_sort(s) ==
    IF s = <<>> THEN <<>>
    ELSE LET m == CHOOSE i \in 1..Len(s) :
                    \A j \in 1..Len(s) : ~SortLess(s[j], s[i])
         IN  <<s[m]>> \o
             par_sort([i \in 1..(Len(s) - 1) |-> IF i < m THEN s[i] ELSE s[i + 1]])

RECURSIVE collect_strings(_)
collect_strings(data) ==
    LET strs ==
          CASE data[1] = "String" -> <<data[2]>>
            [] data[1] = "Array" ->
                 IndexSetExtend(<<>>,
                     Concat([i \in 1..Len(data[2]) |-> collect_strings(data[2][i])]))
            [] data[1] = "Hash" ->
                 IndexSetExtend(<<>>,
                     Concat([i \in 1..Len(data[2]) |-> collect_strings(data[2][i].v)]))
            [] OTHER -> <<>>
    IN  par_sort(strs)

\* keys collected from the root alone, not from the nodes below it
collect_keys_shallow(data) ==
    IF data[1] = "Hash"
    THEN par_sort(IndexSetExtend(<<>>, [i \in 1..Len(data[2]) |-> data[2][i].k]))
    ELSE <<>>

RECURSIVE collect_keys(_)
collect_keys(data) ==
    LET keys ==
          CASE data[1] = "Hash" ->
                 IndexSetExtend(
                     IndexSetExtend(<<>>, [i \in 1..Len(data[2]) |-> data[2][i].k]),
                     Concat([i \in 1..Len(data[2]) |-> collect_keys(data[2][i].v)]))
            [] data[1] = "Array" ->
                 IndexSetExtend(<<>>,
                     Concat([i \in 1..Len(data[2]) |-> collect_keys(data[2][i])]))
            [] OTHER -> <<>>
    IN  par_sort(keys)

(***************************************************************************)
(* write.rs BymlWriter.  The writer is a record: the borrowed document,    *)
(* the options, the two tables, the emitted-node map, and the sink (buf:   *)
(* the Vec<u8>, pos: the Cursor's position).  err is "none" until an       *)
(* operation fails; after that every step is skipped, as by `?`.  bodies   *)
(* and reused record, for the properties, each body emitted by             *)
(* write_offset_node and each slot filled from written_nodes; regions      *)
(* records, for each Array or Hash written, the cursor at entry (start),   *)
(* after the skip (reserved), after the write at start_pos (written) and   *)
(* at return (end), and the number of bodies emitted before it (first).    *)
(***************************************************************************)
NoError == "none"

ErrVersion == "Version unsupported, expected 2-4"

ErrSerialize == "Can only serialize array, hash, or null nodes"

ErrRoot == "Root node must be a hash or array"

ErrOffsetNode == "not a valid offset node"

\* Cursor<&mut Vec<u8>>::write at position pos: the gap up to pos is filled
\* with zeros, bytes in place are overwritten, the vector grows as needed
PutAt(buf, pos, bytes) ==
    IF pos >= Len(buf)
    THEN buf \o [i \in 1..(pos - Len(buf)) |-> 0] \o bytes
    ELSE SubSeq(buf, 1, pos) \o bytes \o SubSeq(buf, pos + Len(bytes) + 1, Len(buf))

\* BymlWriter::write (write_all of the value's bytes)
write(w, bytes) ==
    IF w.err # NoError \/ Len(bytes) = 0 THEN w
    ELSE [w EXCEPT !.buf = PutAt(@, w.pos, bytes), !.pos = @ + Len(bytes)]

seek(w, p) == IF w.err # NoError THEN w ELSE [w EXCEPT !.pos = p]

fail(w, e) == IF w.err # NoError THEN w ELSE [w EXCEPT !.err = e]

\* ((pos + 3) & -4)
Align4(p) == ((p + 3) \div 4) * 4

\* the alignment left out
align_cursor_omitted(w) == w

align_cursor(w) == seek(w, Align4(w.pos))

\* BymlWriter::new
BymlWriter_new(sink, data, e, v) ==
    [ data |-> data, endian |-> e, version |-> v,
      strings |-> collect_strings(data), keys |-> collect_keys(data),
      written_nodes |-> {},
      buf |-> sink.buf, pos |-> sink.pos,
      err |-> NoError,
      header |-> [hash_table_offset |-> 0, string_table_offset |-> 0,
                  root_node_offset |-> 0],
      tables |-> <<>>, bodies |-> <<>>, reused |-> <<>>, regions |-> <<>> ]

\* gen_str_offsets
RECURSIVE gen_str_offsets_from(_, _, _)
gen_str_offsets_from(x, i, pos) ==
    IF i > Len(x) THEN <<pos>>
    ELSE <<pos>> \o gen_str_offsets_from(x, i + 1, Align4(pos + Len(x[i]) + 1))

\* the offsets begun where the sentinel lies, as for a table of N offsets
gen_str_offsets_no_sentinel(x) == gen_str_offsets_from(x, 1, 4 + Len(x) * 4)

gen_str_offsets(x) == gen_str_offsets_from(x, 1, 4 + (Len(x) + 1) * 4)

\* write_string_table, the loop over the strings: seek to each string's
\* place, write it and its NUL
RECURSIVE write_table_strings(_, _, _, _, _)
write_table_strings(w, start_pos, strings, offsets, i) ==
    IF i > Len(strings) THEN w
    ELSE write_table_strings(
             write(write(seek(w, start_pos + offsets[i]), strings[i]), <<0>>),
             start_pos, strings, offsets, i + 1)

\* write_string_table from start_pos on, with the offsets computed
write_string_table_at(w, strings, start_pos, offsets) ==
    align_cursor(
        write_table_strings(
            align_cursor(
                write(write(write(w, <<NodeTypeTag("StringTable")>>),
                            U24Bytes(Len(strings), w.endian)),
                      Concat([i \in 1..Len(offsets) |->
                                IntBytes(offsets[i], 4, w.endian)]))),
            start_pos, strings, offsets, 1))

write_string_table(w, strings) ==
    IF w.err # NoError THEN w
    ELSE write_string_table_at(
             [w EXCEPT !.tables = Append(@, [off |-> w.pos, strings |-> strings])],
             strings, w.pos, gen_str_offsets(strings))

\* enum NodeValue and impl From<&Byml> for NodeValue
NodeValue(k, v) == [k |-> k, v |-> v]

NodeValue_from(node) ==
    CASE node[1] = "Int" -> NodeValue("Int", node[2])
      [] node[1] = "UInt" -> NodeValue("UInt", node[2])
      [] node[1] = "Float" -> NodeValue("Float", FloatInto(node[2]))
      [] node[1] = "Bool" -> NodeValue("Bool", node[2])
      [] node[1] = "String" -> NodeValue("String", 0)
      [] OTHER -> NodeValue("Offset", 0)

\* the Float written most significant byte first whatever the writer's endian
NodeValueBytes_float_big(val, e) ==
    CASE val.k = "Bool" -> IntBytes(IF val.v THEN 1 ELSE 0, 4, e)
      [] val.k = "Float" -> val.v
      [] OTHER -> IntBytes(val.v, 4, e)

\* impl BinWrite for NodeValue
NodeValueBytes(val, e) ==
    CASE val.k = "Bool" -> IntBytes(IF val.v THEN 1 ELSE 0, 4, e)
      [] val.k = "Float" -> FloatBytes(val.v, e)
      [] OTHER -> IntBytes(val.v, 4, e)

\* the value first put in a child's slot (write_hash 339-350, write_array 387-394)
SlotValue(w, v) ==
    IF v[1] = "String" THEN NodeValue("String", get_index_of(w.strings, v[2]))
    ELSE NodeValue_from(v)

\* the children that go to after_nodes
IsAfterNode(v) == ~is_value(v) /\ ~is_string(v)

\* IndexMap::get / IndexMap::insert on written_nodes, a set of <<hash, offset>>
written_get(m, h) == {e \in m : e[1] = h}

written_insert(m, h, off) == {e \in m : e[1] # h} \cup {<<h, off>>}

RECURSIVE write_offset_node(_, _), write_hash(_, _), write_array(_, _)
RECURSIVE write_after_nodes(_, _, _)

\* one turn of the loop over after_nodes: st is the writer and the parent's
\* slot values, b the child of index i, hit the entries of written_nodes
\* under b's hash
write_after_node(st, b, i, hit) ==
    IF hit # {}
    THEN [w |-> [st.w EXCEPT !.reused =
                    Append(@, [off |-> (CHOOSE e \in hit : TRUE)[2], node |-> b])],
          values |-> [st.values EXCEPT
                         ![i] = NodeValue("Offset", (CHOOSE e \in hit : TRUE)[2])],
          reserved |-> st.reserved, first |-> st.first]
    ELSE [w |-> align_cursor(write_offset_node(st.w, b)),
          values |-> [st.values EXCEPT ![i] = NodeValue("Offset", st.w.pos)],
          reserved |-> st.reserved, first |-> st.first]

\* the loop over after_nodes of write_hash and write_array
write_after_nodes(st, children, i) ==
    IF i > Len(children) \/ st.w.err # NoError THEN st
    ELSE IF ~IsAfterNode(children[i]) THEN write_after_nodes(st, children, i + 1)
    ELSE write_after_nodes(
             write_after_node(st, children[i], i,
                 written_get(st.w.written_nodes, calculate_hash(children[i]))),
             children, i + 1)

\* the end of write_offset_node: w1 is the writer after the body, begun at pos
written_at(w1, node, pos) ==
    IF w1.err # NoError THEN w1
    ELSE [w1 EXCEPT
            !.written_nodes = written_insert(@, calculate_hash(node), pos),
            !.bodies = Append(@, [off |-> pos, node |-> node])]

write_offset_node(w, node) ==
    written_at(
        CASE node[1] = "Hash" -> write_hash(w, node[2])
          [] node[1] = "Array" -> write_array(w, node[2])
          [] node[1] = "Double" -> write(w, FloatBytes(FloatInto(node[2]), w.endian))
          [] node[1] \in {"Int64", "UInt64"} -> write(w, IntBytes(node[2], 8, w.endian))
          [] node[1] = "Binary" ->
               write(write(w, IntBytes(Len(node[2]), 4, w.endian)), node[2])
          [] OTHER -> fail(w, ErrOffsetNode),
        node, w.pos)

\* the record of an Array or Hash written: w is the writer after the write
\* at start_pos, st the writer and the cursor after the loop, to which the
\* writer returns
region(w, start_pos, st) ==
    IF w.err # NoError THEN w
    ELSE [w EXCEPT !.regions =
             Append(@, [start |-> start_pos, reserved |-> st.reserved,
                        written |-> w.pos, end |-> st.w.pos,
                        first |-> st.first])]

\* struct HashNode as binwrite lays it out: count, then the entries
HashNodeBytes(w, hash, values) ==
    U24Bytes(Len(hash), w.endian) \o
    Concat([i \in 1..Len(hash) |->
              U24Bytes(get_index_of(w.keys, hash[i].k), w.endian)
              \o <<NodeTypeTag(get_type(hash[i].v))>>
              \o NodeValueBytes(values[i], w.endian)])

\* the end of write_hash: seek back to start_pos, write the node, return to
\* the end (st: the writer and the values after the loop)
write_hash_node(st, hash, start_pos) ==
    seek(region(write(write(seek(st.w, start_pos), <<NodeTypeTag("Hash")>>),
                      HashNodeBytes(st.w, hash, st.values)),
                start_pos, st),
         st.w.pos)

write_hash(w, hash) ==
    write_hash_node(
        write_after_nodes(
            [w |-> seek(w, w.pos + Len(hash) * 8 + 4),
             values |-> [i \in 1..Len(hash) |-> SlotValue(w, hash[i].v)],
             reserved |-> w.pos + Len(hash) * 8 + 4,
             first |-> Len(w.bodies)],
            [i \in 1..Len(hash) |-> hash[i].v], 1),
        hash, w.pos)

\* struct ArrayNode as binwrite lays it out: count, then the types
ArrayNodeBytes(w, array) ==
    U24Bytes(Len(array), w.endian) \o
    [i \in 1..Len(array) |-> NodeTypeTag(get_type(array[i]))]

\* the end of write_array
write_array_node(st, array, start_pos) ==
    seek(region(write(align_cursor(
                          write(write(seek(st.w, start_pos), <<NodeTypeTag("Array")>>),
                                ArrayNodeBytes(st.w, array))),
                      Concat([i \in 1..Len(array) |->
                                NodeValueBytes(st.values[i], st.w.endian)])),
                start_pos, st),
         st.w.pos)

\* write_array with a skip that leaves out the N tag bytes
write_array_short_skip(w, array) ==
    write_array_node(
        write_after_nodes(
            [w |-> align_cursor(seek(w, w.pos + Len(array) * 4 + 4)),
             values |-> [i \in 1..Len(array) |-> SlotValue(w, array[i])],
             reserved |-> Align4(w.pos + Len(array) * 4 + 4),
             first |-> Len(w.bodies)],
            array, 1),
        array, w.pos)

write_array(w, array) ==
    write_array_node(
        write_after_nodes(
            [w |-> align_cursor(seek(w, w.pos + Len(array) + Len(array) * 4 + 4)),
             values |-> [i \in 1..Len(array) |-> SlotValue(w, array[i])],
             reserved |-> Align4(w.pos + Len(array) + Len(array) * 4 + 4),
             first |-> Len(w.bodies)],
            array, 1),
        array, w.pos)

\* the header with the two table offsets in each other's place
HeaderBytes_swapped(w) ==
    (IF w.endian = "Big" THEN <<66, 89>> ELSE <<89, 66>>)
    \o IntBytes(w.version, 2, w.endian)
    \o IntBytes(w.header.string_table_offset, 4, w.endian)
    \o IntBytes(w.header.hash_table_offset, 4, w.endian)
    \o IntBytes(w.header.root_node_offset, 4, w.endian)

\* struct Header as binwrite lays it out
HeaderBytes(w) ==
    (IF w.endian = "Big" THEN <<66, 89>> ELSE <<89, 66>>)
    \o IntBytes(w.version, 2, w.endian)
    \o IntBytes(w.header.hash_table_offset, 4, w.endian)
    \o IntBytes(w.header.string_table_offset, 4, w.endian)
    \o IntBytes(w.header.root_node_offset, 4, w.endian)

\* the key table written even when there is no key
write_doc_keys_always(w) ==
    align_cursor(
        write_string_table([w EXCEPT !.header.hash_table_offset = w.pos], w.keys))

\* write_doc 287-291: the key table
write_doc_keys(w) ==
    IF w.keys # <<>>
    THEN align_cursor(
             write_string_table([w EXCEPT !.header.hash_table_offset = w.pos], w.keys))
    ELSE w

\* write_doc 292-296: the value table
write_doc_strings(w) ==
    IF w.strings # <<>> /\ w.err = NoError
    THEN align_cursor(
             write_string_table([w EXCEPT !.header.string_table_offset = w.pos],
                                w.strings))
    ELSE w

\* write_doc 297-302: the header, then the root
write_doc_root(w) ==
    IF w.err # NoError THEN w
    ELSE write_offset_node(
             seek(write(seek([w EXCEPT !.header.root_node_offset = w.pos], 0),
                        HeaderBytes([w EXCEPT !.header.root_node_offset = w.pos])),
                  w.pos),
             w.data)

write_doc(w) ==
    IF ~is_container(w.data) THEN fail(w, ErrRoot)
    ELSE write_doc_root(write_doc_strings(write_doc_keys(seek(w, 16))))

\* no BymlWriter was made: the sink is as the caller passed it
NoWriter(sink) ==
    [ data |-> Byml_Null, endian |-> "none", version |-> 0,
      strings |-> <<>>, keys |-> <<>>, written_nodes |-> {},
      buf |-> sink.buf, pos |-> sink.pos,
      err |-> NoError,
      header |-> [hash_table_offset |-> 0, string_table_offset |-> 0,
                  root_node_offset |-> 0],
      tables |-> <<>>, bodies |-> <<>>, reused |-> <<>>, regions |-> <<>> ]

\* write_binary without the match on the root's variant
write_binary_any_root(data, sink, e, v) ==
    IF v > 4 \/ v < 2 THEN fail(NoWriter(sink), ErrVersion)
    ELSE write_doc(BymlWriter_new(sink, data, e, v))

\* write_binary with the version check off by one
write_binary_below_4(data, sink, e, v) ==
    IF v >= 4 \/ v < 2 THEN fail(NoWriter(sink), ErrVersion)
    ELSE IF data[1] \in {"Array", "Hash", "Null"}
    THEN write_doc(BymlWriter_new(sink, data, e, v))
    ELSE fail(NoWriter(sink), ErrSerialize)

\* Byml::write_binary: the writer it ran, err set to the error returned
write_binary(data, sink, e, v) ==
    IF v > 4 \/ v < 2 THEN fail(NoWriter(sink), ErrVersion)
    ELSE IF data[1] \in {"Array", "Hash", "Null"}
    THEN write_doc(BymlWriter_new(sink, data, e, v))
    ELSE fail(NoWriter(sink), ErrSerialize)

\* the value to_binary returns once write_binary has run as w: Ok(buf) or Err
ToBinaryResult(w) ==
    [ok |-> w.err = NoError,
     bytes |-> IF w.err = NoError THEN w.buf ELSE <<>>,
     err |-> w.err,
     writer |-> w]

\* Byml::to_binary
to_binary(data, e, v) ==
    ToBinaryResult(write_binary(data, [buf |-> <<>>, pos |-> 0], e, v))

(***************************************************************************)
(* The binary reader (Byml::from_binary).  mod parse is not among the      *)
(* sources; the reader follows the format's description: header, string    *)
(* tables, inline and offset nodes.  A failed parse is the node            *)
(* ParseError.                                                             *)
(***************************************************************************)
ParseError == <<"ParseError", <<>>>>

InBuf(bytes, off, n) == off >= 0 /\ off + n <= Len(bytes)

\* the unsigned integer held in the n bytes at off (off counted from 0)
RECURSIVE BeValue(_)
BeValue(bs) ==
    IF bs = <<>> THEN 0 ELSE BeValue(SubSeq(bs, 1, Len(bs) - 1)) * 256 + bs[Len(bs)]

MsbFirst(bytes, off, n, e) ==
    IF e = "Big" THEN SubSeq(bytes, off + 1, off + n)
    ELSE Reverse(SubSeq(bytes, off + 1, off + n))

ReadUnsigned(bytes, off, n, e) == BeValue(MsbFirst(bytes, off, n, e))

\* the two's complement integer held in the n bytes at off
ReadSigned(bytes, off, n, e) ==
    LET m == MsbFirst(bytes, off, n, e)
    IN  BeValue(<<IF m[1] >= 128 THEN m[1] - 256 ELSE m[1]>> \o Tail(m))

\* the NUL-terminated string at off
RECURSIVE ReadCStr(_, _)
ReadCStr(bytes, off) ==
    IF ~InBuf(bytes, off, 1) \/ bytes[off + 1] = 0 THEN <<>>
    ELSE <<bytes[off + 1]>> \o ReadCStr(bytes, off + 1)

\* a failed read of a StringTable
TableError == <<<<-1>>>>

\* a StringTable at off: its strings, or TableError
ReadStringTable(bytes, off, e) ==
    IF ~InBuf(bytes, off, 4) \/ bytes[off + 1] # NodeTypeTag("StringTable")
    THEN TableError
    ELSE LET n == ReadUnsigned(bytes, off + 1, 3, e)
         IN  IF ~InBuf(bytes, off + 4, 4 * (n + 1)) THEN TableError
             ELSE [i \in 1..n |->
                     ReadCStr(bytes, off + ReadUnsigned(bytes, off + 4 * i, 4, e))]

IsOffsetTag(tag) ==
    tag \in {NodeTypeTag("Binary"), NodeTypeTag("Array"), NodeTypeTag("Hash"),
             NodeTypeTag("Int64"), NodeTypeTag("UInt64"), NodeTypeTag("Double")}

\* ctx: the bytes, the endian and the two tables; fuel bounds the nesting
RECURSIVE ReadNode(_, _, _, _), ReadChild(_, _, _, _)
ReadChild(ctx, tag, slot, fuel) ==
    IF ~InBuf(ctx.bytes, slot, 4) THEN ParseError
    ELSE IF IsOffsetTag(tag)
    THEN ReadNode(ctx, tag, ReadUnsigned(ctx.bytes, slot, 4, ctx.e), fuel)
    ELSE CASE tag = NodeTypeTag("Null") -> Byml_Null
           [] tag = NodeTypeTag("Bool") ->
                Byml_Bool(ReadUnsigned(ctx.bytes, slot, 4, ctx.e) # 0)
           [] tag = NodeTypeTag("Int") -> Byml_Int(ReadSigned(ctx.bytes, slot, 4, ctx.e))
           [] tag = NodeTypeTag("UInt") ->
                Byml_UInt(ReadUnsigned(ctx.bytes, slot, 4, ctx.e))
           [] tag = NodeTypeTag("Float") ->
                Byml_Float(MsbFirst(ctx.bytes, slot, 4, ctx.e), ctx.e)
           [] tag = NodeTypeTag("String") ->
                LET idx == ReadUnsigned(ctx.bytes, slot, 4, ctx.e)
                IN  IF idx < Len(ctx.strings) THEN Byml_String(ctx.strings[idx + 1])
                    ELSE ParseError
           [] OTHER -> ParseError

ReadNode(ctx, tag, off, fuel) ==
    IF fuel = 0 THEN ParseError
    ELSE
    CASE tag = NodeTypeTag("Binary") ->
           IF ~InBuf(ctx.bytes, off, 4) THEN ParseError
           ELSE LET n == ReadUnsigned(ctx.bytes, off, 4, ctx.e)
                IN  IF ~InBuf(ctx.bytes, off + 4, n) THEN ParseError
                    ELSE Byml_Binary(SubSeq(ctx.bytes, off + 5, off + 4 + n))
      [] tag = NodeTypeTag("Int64") ->
           IF ~InBuf(ctx.bytes, off, 8) THEN ParseError
           ELSE Byml_Int64(ReadSigned(ctx.bytes, off, 8, ctx.e))
      [] tag = NodeTypeTag("UInt64") ->
           IF ~InBuf(ctx.bytes, off, 8) THEN ParseError
           ELSE Byml_UInt64(ReadUnsigned(ctx.bytes, off, 8, ctx.e))
      [] tag = NodeTypeTag("Double") ->
           IF ~InBuf(ctx.bytes, off, 8) THEN ParseError
           ELSE Byml_Double(MsbFirst(ctx.bytes, off, 8, ctx.e), ctx.e)
      [] tag = NodeTypeTag("Array") ->
           IF ~InBuf(ctx.bytes, off, 4) \/ ctx.bytes[off + 1] # tag THEN ParseError
           ELSE LET n == ReadUnsigned(ctx.bytes, off + 1, 3, ctx.e)
                    slots == off + Align4(4 + n)
                IN  IF ~InBuf(ctx.bytes, off + 4, n) THEN ParseError
                    ELSE LET kids == [i \in 1..n |->
                                        ReadChild(ctx, ctx.bytes[off + 4 + i],
                                                  slots + 4 * (i - 1), fuel - 1)]
                         IN  IF ParseError \in Range(kids) THEN ParseError
                             ELSE Byml_Array(kids)
      [] tag = NodeTypeTag("Hash") ->
           IF ~InBuf(ctx.bytes, off, 4) \/ ctx.bytes[off + 1] # tag THEN ParseError
           ELSE LET n == ReadUnsigned(ctx.bytes, off + 1, 3, ctx.e)
                IN  IF ~InBuf(ctx.bytes, off + 4, 8 * n) THEN ParseError
                    ELSE LET at(i) == off + 4 + 8 * (i - 1)
                             kidx == [i \in 1..n |->
                                        ReadUnsigned(ctx.bytes, at(i), 3, ctx.e)]
                             kids == [i \in 1..n |->
                                        ReadChild(ctx, ctx.bytes[at(i) + 4],
                                                  at(i) + 4, fuel - 1)]
                         IN  IF \/ ParseError \in Range(kids)
                                \/ \E i \in 1..n : kidx[i] >= Len(ctx.keys)
                                \/ \E i \in 1..(n - 1) : kidx[i] >= kidx[i + 1]
                             THEN ParseError
                             ELSE Byml_Hash([i \in 1..n |->
                                      [k |-> ctx.keys[kidx[i] + 1], v |-> kids[i]]])
      [] OTHER -> ParseError

\* Byml::from_binary
from_binary(bytes) ==
    IF ~InBuf(bytes, 0, 16) THEN ParseError
    ELSE
    LET e == IF SubSeq(bytes, 1, 2) = <<66, 89>> THEN "Big"
             ELSE IF SubSeq(bytes, 1, 2) = <<89, 66>> THEN "Little"
             ELSE "bad magic"
    IN  IF e = "bad magic" THEN ParseError
        ELSE
        LET v == ReadUnsigned(bytes, 2, 2, e)
            hto == ReadUnsigned(bytes, 4, 4, e)
            sto == ReadUnsigned(bytes, 8, 4, e)
            rno == ReadUnsigned(bytes, 12, 4, e)
            keys == IF hto = 0 THEN <<>> ELSE ReadStringTable(bytes, hto, e)
            strings == IF sto = 0 THEN <<>> ELSE ReadStringTable(bytes, sto, e)
            ctx == [bytes |-> bytes, e |-> e, keys |-> keys, strings |-> strings]
        IN  IF v < 2 \/ v > 4 \/ keys = TableError \/ strings = TableError
            THEN ParseError
            ELSE IF rno = 0 THEN Byml_Null
            ELSE IF ~InBuf(bytes, rno, 1)
                    \/ bytes[rno + 1] \notin {NodeTypeTag("Array"), NodeTypeTag("Hash")}
            THEN ParseError
            ELSE ReadNode(ctx, bytes[rno + 1], rno, Len(bytes))

(***************************************************************************)
(* The state machine: a document is given, to_binary is called on it with  *)
(* some endian and version.                                                *)
(***************************************************************************)
\* the version arguments tried (version is a u16)
Versions == {0, 1, 2, 3, 4, 5, 65535}

NoRet ==
    [ok |-> FALSE, bytes |-> <<>>, err |-> NoError,
     writer |-> NoWriter([buf |-> <<>>, pos |-> 0])]

\* no second operand given, no result yet
NoValue == <<"None", <<>>>>

InitWith(D) ==
    /\ doc \in D
    /\ endian = "none"
    /\ version = 0
    /\ pc = "ready"
    /\ ret = NoRet
    /\ parsed = ParseError
    /\ other = NoValue
    /\ out = NoValue
    /\ NoFeed

Init == InitWith(Docs)

ToBinary ==
    /\ pc = "ready"
    /\ \E e \in Endian, v \in Versions :
         /\ endian' = e
         /\ version' = v
         /\ ret' = to_binary(doc, e, v)
    /\ pc' = "done"
    /\ UNCHANGED <<doc, parsed, other, out,
                   stream, delivered, loader>>

\* from_binary on the bytes to_binary returned
FromBinary ==
    /\ pc = "done"
    /\ ret.ok
    /\ parsed' = from_binary(ret.bytes)
    /\ pc' = "parsed"
    /\ UNCHANGED <<doc, endian, version, ret, other, out,
                   stream, delivered, loader>>

Next == ToBinary

Spec == Init /\ [][Next]_vars

\* to_binary, then from_binary on its output
NextRoundTrip == ToBinary \/ FromBinary

SpecRoundTrip == Init /\ [][NextRoundTrip]_vars

\* documents that hold two subtrees side by side: Array[x, y] for containers
\* x, y of at most MaxShareNodes nodes whose leaves are 1.0f32 tagged Big or
\* Little
ShareLeaves == {Byml_Float(F32One, "Big"), Byml_Float(F32One, "Little")}

SharePool == {x \in Trees(MaxShareNodes, ShareLeaves) : is_container(x)}

ShareDocs == {Byml_Array(<<x, y>>) : x, y \in SharePool}

InitShare == InitWith(ShareDocs)

SpecShare == InitShare /\ [][Next]_vars

\* documents that hold two subtrees as the values of one Hash: Hash{a: x,
\* b: y} for containers x, y of at most MaxShareNodes nodes and no leaf
SharedValues == {x \in Trees(MaxShareNodes, {}) : is_container(x)}

ShareHashDocs == {HashOf(<<StrA, StrB>>, <<x, y>>) : x, y \in SharedValues}

InitShareHash == InitWith(ShareHashDocs)

SpecShareHash == InitShareHash /\ [][Next]_vars

(***************************************************************************)
(* lib.rs: a == b on two nodes.                                            *)
(***************************************************************************)
\* the largest number of nodes of each operand of ==
MaxEqNodes == 2

\* the bits of 0.0f32, of -0.0f32 and of a NaN
F32Zero == <<0, 0, 0, 0>>

F32NegZero == <<128, 0, 0, 0>>

F32NaN == <<127, 192, 0, 0>>

EqLeaves ==
    { Byml_Null, Byml_Bool(FALSE), Byml_Int(1), Byml_UInt(1),
      Byml_Float(F32One, "Big"), Byml_Float(F32One, "Little"),
      Byml_Float(F32Zero, "Big"), Byml_Float(F32NegZero, "Big"),
      Byml_Float(F32NaN, "Big"),
      Byml_Double(F64One, "Big"), Byml_Double(F64One, "Little") }

EqNodes == Trees(MaxEqNodes, EqLeaves)

InitEq ==
    /\ doc \in EqNodes
    /\ other \in EqNodes
    /\ endian = "none"
    /\ version = 0
    /\ pc = "ready"
    /\ ret = NoRet
    /\ parsed = ParseError
    /\ out = NoValue
    /\ NoFeed

\* doc == other
Eq ==
    /\ pc = "ready"
    /\ out' = eq(doc, other)
    /\ pc' = "eq"
    /\ UNCHANGED <<doc, endian, version, ret, parsed, other,
                   stream, delivered, loader>>

SpecEq == InitEq /\ [][Eq]_vars

(***************************************************************************)
(* lib.rs: node[index].  An index is <<"Index", i>> or <<"Key", k>>; a     *)
(* panic is the value Panic.                                               *)
(***************************************************************************)
Panic == <<"Panic", <<>>>>

BymlIndex_Key(k) == <<"Key", k>>

BymlIndex_Index(i) == <<"Index", i>>

\* as_hash / as_array: <<"Ok", payload>> or <<"Err", TypeError>>
as_hash(n) == IF n[1] = "Hash" THEN <<"Ok", n[2]>> ELSE <<"Err", <<>>>>

as_array(n) == IF n[1] = "Array" THEN <<"Ok", n[2]>> ELSE <<"Err", <<>>>>

\* BTreeMap's [k]
BTreeMapIndex(h, k) ==
    IF \E i \in 1..Len(h) : h[i].k = k
    THEN h[CHOOSE i \in 1..Len(h) : h[i].k = k].v
    ELSE Panic

\* an index counted from 1
VecIndex_from_one(a, i) == IF i >= 1 /\ i <= Len(a) THEN a[i] ELSE Panic

\* Vec's [i]
VecIndex(a, i) == IF i < Len(a) THEN a[i + 1] ELSE Panic

\* impl Index for Byml
index(self, idx) ==
    IF idx[1] = "Key"
    THEN IF as_hash(self)[1] = "Err" THEN Panic
         ELSE BTreeMapIndex(as_hash(self)[2], idx[2])
    ELSE IF as_array(self)[1] = "Err" THEN Panic
         ELSE VecIndex(as_array(self)[2], idx[2])

\* the indices tried: 0..MaxNodes, and the keys "a", "b" and "ab"
Indices ==
    {BymlIndex_Index(i) : i \in 0..MaxNodes}
    \cup {BymlIndex_Key(k) : k \in Keys \cup {StrAB}}

InitIndex ==
    /\ doc \in Docs
    /\ other \in Indices
    /\ endian = "none"
    /\ version = 0
    /\ pc = "ready"
    /\ ret = NoRet
    /\ parsed = ParseError
    /\ out = NoValue
    /\ NoFeed

\* doc[other]
IndexOp ==
    /\ pc = "ready"
    /\ out' = index(doc, other)
    /\ pc' = "indexed"
    /\ UNCHANGED <<doc, endian, version, ret, parsed, other,
                   stream, delivered, loader>>

SpecIndex == InitIndex /\ [][IndexOp]_vars

(***************************************************************************)
(* The text format (src/src/yaml).  A text is the sequence of its bytes.   *)
(* First the conversions of the standard library that the emitter and the  *)
(* loader call: Display and FromStr of the integers, Debug and FromStr of  *)
(* the floats.                                                             *)
(***************************************************************************)
\* the largest number of nodes of a document that is emitted as text
MaxTextNodes == 3

\* the printable ASCII characters, from byte 32 to byte 126; bytes 34,
\* 39, 92 and 96 are written by name
Printable ==
    << " ", "!", "quote", "#", "$", "%", "&", "apostrophe", "(", ")", "*", "+", ",", "-",
       ".", "/", "0", "1", "2", "3", "4", "5", "6", "7", "8", "9", ":", ";",
       "<", "=", ">", "?", "@", "A", "B", "C", "D", "E", "F", "G", "H", "I",
       "J", "K", "L", "M", "N", "O", "P", "Q", "R", "S", "T", "U", "V", "W",
       "X", "Y", "Z", "[", "backslash", "]", "^", "_", "backtick", "a", "b", "c", "d", "e",
       "f", "g", "h", "i", "j", "k", "l", "m", "n", "o", "p", "q", "r", "s",
       "t", "u", "v", "w", "x", "y", "z", "{", "|", "}", "~" >>

\* the byte of a character, the bytes of a string literal given by its
\* characters
Byte(c) ==
    IF c = "\n" THEN 10 ELSE 31 + CHOOSE i \in 1..Len(Printable) : Printable[i] = c

Utf8(s) == [i \in 1..Len(s) |-> Byte(s[i])]

starts_with(s, p) == Len(s) >= Len(p) /\ SubSeq(s, 1, Len(p)) = p

ends_with(s, p) ==
    Len(s) >= Len(p) /\ SubSeq(s, Len(s) - Len(p) + 1, Len(s)) = p

IsDigit(c) == c >= 48 /\ c <= 57

\* impl Display for the integers: decimal, "-" before a negative one
RECURSIVE Digits(_)
Digits(n) ==
    IF n < 10 THEN <<48 + n>> ELSE Digits(n \div 10) \o <<48 + (n % 10)>>

DisplayInt(n) == IF n < 0 THEN <<45>> \o Digits(0 - n) ELSE Digits(n)

Ok(v) == <<"Ok", v>>

Err == <<"Err", <<>>>>

\* the value of a digit in a radix, -1 if it is none
DigitValue(c, radix) ==
    IF IsDigit(c) /\ c - 48 < radix THEN c - 48
    ELSE IF radix = 16 /\ c >= 97 /\ c <= 102 THEN c - 87
    ELSE IF radix = 16 /\ c >= 65 /\ c <= 70 THEN c - 55
    ELSE -1

\* core::num from_str_radix, after the sign: the digits are accumulated
\* from the left, checked against the type's range [-max - 1, max] (or
\* [0, max] for the positive branch) before every step
RECURSIVE Accumulate(_, _, _, _, _, _)
Accumulate(s, i, acc, radix, neg, max) ==
    IF i > Len(s) THEN Ok(acc)
    ELSE IF DigitValue(s[i], radix) < 0 THEN Err
    ELSE IF neg
    THEN IF acc < ((0 - max) - 1 + DigitValue(s[i], radix)) \div radix
              + (IF ((0 - max) - 1 + DigitValue(s[i], radix)) % radix = 0
                 THEN 0 ELSE 1)
         THEN Err
         ELSE Accumulate(s, i + 1, acc * radix - DigitValue(s[i], radix),
                         radix, neg, max)
    ELSE IF acc > (max - DigitValue(s[i], radix)) \div radix THEN Err
         ELSE Accumulate(s, i + 1, acc * radix + DigitValue(s[i], radix),
                         radix, neg, max)

\* i32::from_str_radix and its siblings: an optional sign ("-" only for a
\* signed type), then at least one digit.  The model's integers are 32 bits
\* wide, so max is the type's largest value for i32 and the largest value
\* of the model for the wider types, whose texts in the model stay short.
from_str_radix(s, radix, signed, max) ==
    IF s = <<>> THEN Err
    ELSE IF s[1] \in {43, 45} /\ Len(s) = 1 THEN Err
    ELSE IF s[1] = 43 THEN Accumulate(s, 2, 0, radix, FALSE, max)
    ELSE IF s[1] = 45 /\ signed THEN Accumulate(s, 2, 0, radix, TRUE, max)
    ELSE Accumulate(s, 1, 0, radix, FALSE, max)

I32Max == 2147483647

\* str::parse::<i32>, ::<i64>, ::<u64>
parse_i32(s) == from_str_radix(s, 10, TRUE, I32Max)

parse_i64(s) == from_str_radix(s, 10, TRUE, I32Max)

parse_u64(s) == from_str_radix(s, 10, FALSE, I32Max)

\* parse_int::parse::<u32>: underscores are dropped, then the prefix 0x
\* selects radix 16, 0o radix 8, 0b radix 2, and no prefix radix 10
parse_int_u32(s) ==
    LET t == SelectSeq(s, LAMBDA c : c # 95)
    IN  IF starts_with(t, <<48, 120>>)
        THEN from_str_radix(SubSeq(t, 3, Len(t)), 16, FALSE, I32Max)
        ELSE IF starts_with(t, <<48, 111>>)
        THEN from_str_radix(SubSeq(t, 3, Len(t)), 8, FALSE, I32Max)
        ELSE IF starts_with(t, <<48, 98>>)
        THEN from_str_radix(SubSeq(t, 3, Len(t)), 2, FALSE, I32Max)
        ELSE from_str_radix(t, 10, FALSE, I32Max)
\* the bits of a byte, of a sequence of bytes, and back; most significant
\* first
ByteBits(b) == [i \in 1..8 |-> (b \div (2 ^ (8 - i))) % 2]

BitsOf(bytes) == Concat([i \in 1..Len(bytes) |-> ByteBits(bytes[i])])

RECURSIVE BitsValue(_)
BitsValue(bits) ==
    IF bits = <<>> THEN 0
    ELSE 2 * BitsValue(SubSeq(bits, 1, Len(bits) - 1)) + bits[Len(bits)]

BytesOf(bits) ==
    [i \in 1..(Len(bits) \div 8) |-> BitsValue(SubSeq(bits, 8 * i - 7, 8 * i))]

ValueBits(n, w) == [i \in 1..w |-> (n \div (2 ^ (w - i))) % 2]

Zeros(n) == [i \in 1..n |-> 0]

\* the IEEE-754 formats: f32 has 8 exponent bits and 23 fraction bits, f64
\* has 11 and 52; the bias is 2^(exponent bits - 1) - 1
F32 == [ebits |-> 8, mbits |-> 23]

F64 == [ebits |-> 11, mbits |-> 52]

Bias(fmt) == 2 ^ (fmt.ebits - 1) - 1

FloatBits(sign, e, m, fmt) == BytesOf(<<sign>> \o ValueBits(e, fmt.ebits) \o m)

Infinity(sign, fmt) ==
    FloatBits(sign, 2 ^ fmt.ebits - 1, Zeros(fmt.mbits), fmt)

NaN(fmt) == FloatBits(0, 2 ^ fmt.ebits - 1, <<1>> \o Zeros(fmt.mbits - 1), fmt)

\* the first position from i on that holds no digit
DigitsEnd(s, i) ==
    CHOOSE j \in i..(Len(s) + 1) :
        /\ \A k \in i..(j - 1) : IsDigit(s[k])
        /\ (j = Len(s) + 1 \/ ~IsDigit(s[j]))

RECURSIVE DigitsValue(_)
DigitsValue(s) ==
    IF s = <<>> THEN 0
    ELSE 10 * DigitsValue(SubSeq(s, 1, Len(s) - 1)) + (s[Len(s)] - 48)

\* num / den scaled by powers of two into [1, 2): the scaled pair and the
\* exponent k with num / den = (num' / den') * 2^k
RECURSIVE Normalize(_, _, _)
Normalize(num, den, k) ==
    IF num \div 2 >= den THEN Normalize(num, 2 * den, k + 1)
    ELSE IF num < den THEN Normalize(2 * num, den, k - 1)
    ELSE [num |-> num, den |-> den, k |-> k]

\* the next n bits of r / den (r < den) by long division, and what is left
RECURSIVE FractionBits(_, _, _)
FractionBits(r, den, n) ==
    IF n = 0 THEN <<>>
    ELSE IF 2 * r >= den THEN <<1>> \o FractionBits(2 * r - den, den, n - 1)
    ELSE <<0>> \o FractionBits(2 * r, den, n - 1)

RECURSIVE FractionRest(_, _, _)
FractionRest(r, den, n) ==
    IF n = 0 THEN r
    ELSE IF 2 * r >= den THEN FractionRest(2 * r - den, den, n - 1)
    ELSE FractionRest(2 * r, den, n - 1)

\* bits + 1; all ones wrap to all zeros
RECURSIVE Increment(_)
Increment(bits) ==
    IF bits = <<>> THEN <<>>
    ELSE IF bits[Len(bits)] = 0
    THEN SubSeq(bits, 1, Len(bits) - 1) \o <<1>>
    ELSE Increment(SubSeq(bits, 1, Len(bits) - 1)) \o <<0>>

\* round to nearest, ties to even
RoundUp(m, rest, den) ==
    2 * rest > den \/ (2 * rest = den /\ m[Len(m)] = 1)

Rounded(sign, k, m, rest, den, fmt) ==
    IF ~RoundUp(m, rest, den) THEN FloatBits(sign, Bias(fmt) + k, m, fmt)
    ELSE IF \A i \in 1..Len(m) : m[i] = 1
    THEN FloatBits(sign, Bias(fmt) + k + 1, Zeros(fmt.mbits), fmt)
    ELSE FloatBits(sign, Bias(fmt) + k, Increment(m), fmt)

FromNormal(sign, n, fmt) ==
    Rounded(sign, n.k, FractionBits(n.num - n.den, n.den, fmt.mbits),
            FractionRest(n.num - n.den, n.den, fmt.mbits), n.den, fmt)

\* the float nearest to digits * 10^e10
FromDecimal(sign, digits, e10, fmt) ==
    IF digits = 0 THEN FloatBits(sign, 0, Zeros(fmt.mbits), fmt)
    ELSE IF e10 >= 0
    THEN FromNormal(sign, Normalize(digits * (10 ^ e10), 1, 0), fmt)
    ELSE FromNormal(sign, Normalize(digits, 10 ^ (0 - e10), 0), fmt)

\* the exponent part of a decimal from position i on: absent, or e | E,
\* an optional sign and at least one digit
ExponentOk(s, i) ==
    \/ i = Len(s) + 1
    \/ /\ s[i] \in {69, 101}
       /\ i < Len(s)
       /\ IF s[i + 1] \in {43, 45}
          THEN i + 1 < Len(s) /\ DigitsEnd(s, i + 2) = Len(s) + 1
          ELSE DigitsEnd(s, i + 1) = Len(s) + 1

ExponentValue(s, i) ==
    IF i = Len(s) + 1 THEN 0
    ELSE IF s[i + 1] = 45 THEN 0 - DigitsValue(SubSeq(s, i + 2, Len(s)))
    ELSE IF s[i + 1] = 43 THEN DigitsValue(SubSeq(s, i + 2, Len(s)))
    ELSE DigitsValue(SubSeq(s, i + 1, Len(s)))

\* the decimal digits that are kept: dec2flt reads them all; the model
\* keeps the first nine, which decide the nearest float for its texts
Kept(digits) == SubSeq(digits, 1, Min(Len(digits), 9))

FromDigits(sign, digits, e10, fmt) ==
    FromDecimal(sign, DigitsValue(Kept(digits)),
                e10 + (Len(digits) - Len(Kept(digits))), fmt)

\* the decimal s = integral digits from 1 to i - 1, then from position i
\* an optional "." with fractional digits up to j - 1, then the exponent;
\* at least one digit is required
ParseDecimalAt(sign, s, i, j, fmt) ==
    IF i = 1 /\ j <= 2 THEN Err
    ELSE IF ~ExponentOk(s, j) THEN Err
    ELSE IF j = i
    THEN Ok(FromDigits(sign, SubSeq(s, 1, i - 1), ExponentValue(s, j), fmt))
    ELSE Ok(FromDigits(sign, SubSeq(s, 1, i - 1) \o SubSeq(s, i + 1, j - 1),
                       ExponentValue(s, j) - (j - 1 - i), fmt))

FractionEnd(s, i) ==
    IF i <= Len(s) /\ s[i] = 46 THEN DigitsEnd(s, i + 1) ELSE i

ParseDecimal(sign, s, fmt) ==
    ParseDecimalAt(sign, s, DigitsEnd(s, 1),
                   FractionEnd(s, DigitsEnd(s, 1)), fmt)

\* core::num::dec2flt of the crate's toolchain (the crate needs a nightly
\* feature that was stabilised in Rust 1.51): an optional sign, then "inf",
\* "NaN" or a decimal with at least one digit
ParseUnsigned(sign, s, fmt) ==
    IF s = <<>> THEN Err
    ELSE IF s = Utf8(<<"i", "n", "f">>) THEN Ok(Infinity(sign, fmt))
    ELSE IF s = Utf8(<<"N", "a", "N">>) THEN Ok(NaN(fmt))
    ELSE ParseDecimal(sign, s, fmt)

dec2flt(s, fmt) ==
    IF s = <<>> THEN Err
    ELSE IF s[1] = 45 THEN ParseUnsigned(1, SubSeq(s, 2, Len(s)), fmt)
    ELSE IF s[1] = 43 THEN ParseUnsigned(0, SubSeq(s, 2, Len(s)), fmt)
    ELSE ParseUnsigned(0, s, fmt)

\* str::parse::<f32>, ::<f64>
parse_f32(s) == dec2flt(s, F32)

parse_f64(s) == dec2flt(s, F64)

\* impl Debug for f32 and f64: NaN, inf, -inf, or the shortest decimal that
\* reads back as the same float, with at least one fractional digit.  The
\* float is odd * 2^s; for the floats of the model, whose binary expansion
\* is short, the shortest decimal is the exact one.
RECURSIVE StripZeros(_)
StripZeros(bits) ==
    IF bits[Len(bits)] = 1 THEN bits
    ELSE StripZeros(SubSeq(bits, 1, Len(bits) - 1))

ZeroPad(d, w) == [i \in 1..(w - Len(d)) |-> 48] \o d

ExactDecimal(odd, s) ==
    IF s >= 0 THEN Digits(odd * (2 ^ s)) \o <<46, 48>>
    ELSE Digits(odd \div (2 ^ (0 - s))) \o <<46>>
         \o ZeroPad(Digits((odd % (2 ^ (0 - s))) * (5 ^ (0 - s))), 0 - s)

DebugFinite(e, significand, fmt) ==
    ExactDecimal(BitsValue(significand),
                 (e - Bias(fmt)) - (Len(significand) - 1))

DebugBits(bits, fmt) ==
    IF BitsValue(SubSeq(bits, 2, 1 + fmt.ebits)) = 2 ^ fmt.ebits - 1
    THEN IF \A i \in (2 + fmt.ebits)..Len(bits) : bits[i] = 0
         THEN (IF bits[1] = 1 THEN <<45>> ELSE <<>>) \o Utf8(<<"i", "n", "f">>)
         ELSE Utf8(<<"N", "a", "N">>)
    ELSE (IF bits[1] = 1 THEN <<45>> ELSE <<>>) \o
         (IF \A i \in 2..Len(bits) : bits[i] = 0 THEN <<48, 46, 48>>
          ELSE DebugFinite(BitsValue(SubSeq(bits, 2, 1 + fmt.ebits)),
                           StripZeros(<<1>> \o SubSeq(bits, 2 + fmt.ebits, Len(bits))),
                           fmt))

DebugFloat(bytes, fmt) == DebugBits(BitsOf(bytes), fmt)
(***************************************************************************)
(* yaml/emit.rs: Byml::to_text.                                            *)
(***************************************************************************)
\* base64::encode (the standard alphabet, padded with "=")
Base64Char(i) ==
    IF i < 26 THEN 65 + i
    ELSE IF i < 52 THEN 97 + (i - 26)
    ELSE IF i < 62 THEN 48 + (i - 52)
    ELSE IF i = 62 THEN 43 ELSE 47

Sextets(bits) ==
    [i \in 1..((Len(bits) + 5) \div 6) |->
        BitsValue(SubSeq(bits \o Zeros(5), 6 * i - 5, 6 * i))]

base64_encode(bytes) ==
    [i \in 1..Len(Sextets(BitsOf(bytes))) |->
        Base64Char(Sextets(BitsOf(bytes))[i])]
    \o [i \in 1..((3 - (Len(bytes) % 3)) % 3) |-> 61]

\* the escape of a byte in escape_str and write_binary, <<>> if it has none
HexDigit(n) == IF n < 10 THEN 48 + n ELSE 87 + n

Escaped(byte) ==
    CASE byte = 34 -> <<92, 34>>
      [] byte = 92 -> <<92, 92>>
      [] byte = 8 -> <<92, 98>>
      [] byte = 9 -> <<92, 116>>
      [] byte = 10 -> <<92, 110>>
      [] byte = 12 -> <<92, 102>>
      [] byte = 13 -> <<92, 114>>
      [] byte < 32 \/ byte = 127 ->
           <<92, 117, 48, 48, HexDigit(byte \div 16), HexDigit(byte % 16)>>
      [] OTHER -> <<>>

write_binary_text(v) ==
    Concat([i \in 1..Len(v) |->
              IF Escaped(v[i]) = <<>> THEN <<v[i]>> ELSE Escaped(v[i])])

escape_str(v) == <<34>> \o write_binary_text(v) \o <<34>>

\* need_quotes: the characters that force quotes at the start, anywhere,
\* and the words that read as a bool or a null
QuotedAtStart ==
    Range(Utf8(<<"&", "*", "?", "|", "-", "<", ">", "=", "!", "%", "@">>))

QuotedAnywhere ==
    Range(Utf8(<<":", "{", "}", "[", "]", ",", "#", "backtick", "quote", "apostrophe", "backslash">>))
    \cup (0..6) \cup {9, 10, 13} \cup (14..26) \cup (28..31)

QuotedWords ==
    { Utf8(<<"y", "e", "s">>), Utf8(<<"Y", "e", "s">>), Utf8(<<"Y", "E", "S">>),
      Utf8(<<"n", "o">>), Utf8(<<"N", "o">>), Utf8(<<"N", "O">>),
      Utf8(<<"T", "r", "u", "e">>), Utf8(<<"T", "R", "U", "E">>),
      Utf8(<<"t", "r", "u", "e">>), Utf8(<<"F", "a", "l", "s", "e">>),
      Utf8(<<"F", "A", "L", "S", "E">>), Utf8(<<"f", "a", "l", "s", "e">>),
      Utf8(<<"o", "n">>), Utf8(<<"O", "n">>), Utf8(<<"O", "N">>),
      Utf8(<<"o", "f", "f">>), Utf8(<<"O", "f", "f">>), Utf8(<<"O", "F", "F">>),
      Utf8(<<"n", "u", "l", "l">>), Utf8(<<"N", "u", "l", "l">>),
      Utf8(<<"N", "U", "L", "L">>), Utf8(<<"~">>) }

need_quotes(string) ==
    \/ string = <<>>
    \/ string[1] = 32
    \/ string[Len(string)] = 32
    \/ string[1] \in QuotedAtStart
    \/ \E i \in 1..Len(string) : string[i] \in QuotedAnywhere
    \/ string \in QuotedWords
    \/ string[1] = 46
    \/ starts_with(string, <<48, 120>>)
    \/ parse_i64(string)[1] = "Ok"
    \/ parse_f64(string)[1] = "Ok"

\* write_indent: best_indent = 2 spaces for each level above 0
write_indent(level) == [i \in 1..(2 * level) |-> 32]

\* emit_node, emit_array, emit_hash and emit_val; level is self.level when
\* the function is entered
RECURSIVE emit_node(_, _), emit_val(_, _, _)
emit_array(v, level) ==
    IF v = <<>> THEN <<91, 93>>
    ELSE Concat([cnt \in 1..Len(v) |->
                   (IF cnt > 1 THEN <<10>> \o write_indent(level + 1) ELSE <<>>)
                   \o <<45>> \o emit_val(TRUE, v[cnt], level + 1)])

emit_hash(h, level) ==
    IF h = <<>> THEN <<123, 125>>
    ELSE Concat([cnt \in 1..Len(h) |->
                   (IF cnt > 1 THEN <<10>> \o write_indent(level + 1) ELSE <<>>)
                   \o emit_node(Byml_String(h[cnt].k), level + 1)
                   \o <<58>> \o emit_val(FALSE, h[cnt].v, level + 1)])

emit_val(inline, val, level) ==
    CASE val[1] = "Array" ->
           (IF inline \/ val[2] = <<>> THEN <<32>>
            ELSE <<10>> \o write_indent(level + 1))
           \o emit_array(val[2], level)
      [] val[1] = "Hash" ->
           (IF inline \/ val[2] = <<>> THEN <<32>>
            ELSE <<10>> \o write_indent(level + 1))
           \o emit_hash(val[2], level)
      [] OTHER -> <<32>> \o emit_node(val, level)

\* the same with the tag of Int64 before a UInt
emit_node_uint_as_long(node, level) ==
    CASE node[1] = "Array" -> emit_array(node[2], level)
      [] node[1] = "Hash" -> emit_hash(node[2], level)
      [] node[1] = "String" ->
           IF need_quotes(node[2]) THEN escape_str(node[2]) ELSE node[2]
      [] node[1] = "Bool" ->
           IF node[2] THEN Utf8(<<"t", "r", "u", "e">>)
           ELSE Utf8(<<"f", "a", "l", "s", "e">>)
      [] node[1] = "Int" -> DisplayInt(node[2])
      [] node[1] = "Int64" -> Utf8(<<"!", "l", " ">>) \o DisplayInt(node[2])
      [] node[1] = "UInt" -> Utf8(<<"!", "l", " ">>) \o DisplayInt(node[2])
      [] node[1] = "UInt64" ->
           Utf8(<<"!", "u", "l", " ">>) \o DisplayInt(node[2])
      [] node[1] = "Float" -> DebugFloat(FloatInto(node[2]), F32)
      [] node[1] = "Double" ->
           Utf8(<<"!", "f", "6", "4", " ">>) \o DebugFloat(FloatInto(node[2]), F64)
      [] node[1] = "Binary" ->
           write_binary_text(Utf8(<<"!", "!", "b", "i", "n", "a", "r", "y", " ">>)
                             \o base64_encode(node[2]))
      [] node[1] = "Null" -> <<126>>

\* emit_node
emit_node(node, level) ==
    CASE node[1] = "Array" -> emit_array(node[2], level)
      [] node[1] = "Hash" -> emit_hash(node[2], level)
      [] node[1] = "String" ->
           IF need_quotes(node[2]) THEN escape_str(node[2]) ELSE node[2]
      [] node[1] = "Bool" ->
           IF node[2] THEN Utf8(<<"t", "r", "u", "e">>)
           ELSE Utf8(<<"f", "a", "l", "s", "e">>)
      [] node[1] = "Int" -> DisplayInt(node[2])
      [] node[1] = "Int64" -> Utf8(<<"!", "l", " ">>) \o DisplayInt(node[2])
      [] node[1] = "UInt" -> Utf8(<<"!", "u", " ">>) \o DisplayInt(node[2])
      [] node[1] = "UInt64" ->
           Utf8(<<"!", "u", "l", " ">>) \o DisplayInt(node[2])
      [] node[1] = "Float" -> DebugFloat(FloatInto(node[2]), F32)
      [] node[1] = "Double" ->
           Utf8(<<"!", "f", "6", "4", " ">>) \o DebugFloat(FloatInto(node[2]), F64)
      [] node[1] = "Binary" ->
           write_binary_text(Utf8(<<"!", "!", "b", "i", "n", "a", "r", "y", " ">>)
                             \o base64_encode(node[2]))
      [] node[1] = "Null" -> <<126>>

\* BymlEmitter::dump and Byml::to_text: the document start line, then the
\* root at level -1
to_text(self) == Utf8(<<"-", "-", "-", "\n">>) \o emit_node(self, -1)
(***************************************************************************)
(* The YAML parser (yaml/forked) is not among the sources.  It is modelled *)
(* as YAML reads the texts the emitter writes and the texts given below:   *)
(* one document of block sequences, block mappings, the empty flow         *)
(* collections [] and {}, and plain, quoted and tagged scalars on one      *)
(* line.  An event is <<kind, value, tag>>; the style and the anchor id of *)
(* a scalar are left out, the loader ignores both.  An empty node is the   *)
(* plain scalar "~", as in yaml-rust.                                      *)
(***************************************************************************)
NoTag == <<>>

Event(kind) == <<kind, <<>>, NoTag>>

Scalar(v, tag) == <<"Scalar", v, tag>>

\* the first position of s from i on that satisfies Test, Len(s) + 1 if none
FirstFrom(s, i, Test(_)) ==
    CHOOSE j \in i..(Len(s) + 1) :
        /\ \A k \in i..(j - 1) : ~Test(s[k])
        /\ (j = Len(s) + 1 \/ Test(s[j]))

IsSpace(c) == c = 32

NotSpace(c) == c # 32

IsNewline(c) == c = 10

Indent(line) == FirstFrom(line, 1, NotSpace) - 1

Trim(s) ==
    SubSeq(s, FirstFrom(s, 1, NotSpace),
           Len(s) - Indent(Reverse(s)))

RECURSIVE SplitLines(_)
SplitLines(t) ==
    IF FirstFrom(t, 1, IsNewline) > Len(t) THEN <<t>>
    ELSE <<SubSeq(t, 1, FirstFrom(t, 1, IsNewline) - 1)>>
         \o SplitLines(SubSeq(t, FirstFrom(t, 1, IsNewline) + 1, Len(t)))

\* the escapes of a double-quoted scalar
RECURSIVE Unescape(_)
Unescape(s) ==
    IF s = <<>> THEN <<>>
    ELSE IF s[1] # 92 \/ Len(s) = 1 THEN <<s[1]>> \o Unescape(Tail(s))
    ELSE IF s[2] = 117 /\ Len(s) >= 6
    THEN <<from_str_radix(SubSeq(s, 3, 6), 16, FALSE, I32Max)[2]>>
         \o Unescape(SubSeq(s, 7, Len(s)))
    ELSE <<(CASE s[2] = 110 -> 10
              [] s[2] = 116 -> 9
              [] s[2] = 114 -> 13
              [] s[2] = 98 -> 8
              [] s[2] = 102 -> 12
              [] s[2] = 48 -> 0
              [] OTHER -> s[2])>>
         \o Unescape(SubSeq(s, 3, Len(s)))

\* the end of the quoted scalar that starts at s[1]: the position of its
\* closing quote, Len(s) + 1 if it has none
RECURSIVE QuoteEnd(_, _)
QuoteEnd(s, i) ==
    IF i > Len(s) THEN i
    ELSE IF s[i] = s[1] THEN i
    ELSE IF s[1] = 34 /\ s[i] = 92 THEN QuoteEnd(s, i + 2)
    ELSE QuoteEnd(s, i + 1)

\* the value of a scalar without its tag: quoted or plain
ScalarValue(c) ==
    IF c # <<>> /\ c[1] = 34 /\ QuoteEnd(c, 2) = Len(c)
    THEN Unescape(SubSeq(c, 2, Len(c) - 1))
    ELSE IF c # <<>> /\ c[1] = 39 /\ QuoteEnd(c, 2) = Len(c)
    THEN SubSeq(c, 2, Len(c) - 1)
    ELSE c

\* a tag is "!!" and a suffix, or "!" and a suffix, up to the next space
ScalarTag(t) ==
    IF Len(t) >= 2 /\ t[2] = 33 THEN <<<<33, 33>>, SubSeq(t, 3, Len(t))>>
    ELSE <<<<33>>, SubSeq(t, 2, Len(t))>>

ScalarEvent(c) ==
    IF c # <<>> /\ c[1] = 33
    THEN Scalar(ScalarValue(Trim(SubSeq(c, FirstFrom(c, 1, IsSpace), Len(c)))),
                ScalarTag(SubSeq(c, 1, FirstFrom(c, 1, IsSpace) - 1)))
    ELSE Scalar(ScalarValue(c), NoTag)

\* the position in c of the ":" that ends a mapping key, 0 if c starts no
\* mapping entry: a ":" before a space or the end of the line, after the
\* closing quote of a quoted key
IsKeyColon(c, p) ==
    /\ p <= Len(c)
    /\ c[p] = 58
    /\ (p = Len(c) \/ c[p + 1] = 32)

KeyColon(c) ==
    IF c = <<>> THEN 0
    ELSE IF c[1] \in {34, 39}
    THEN IF IsKeyColon(c, QuoteEnd(c, 2) + 1) THEN QuoteEnd(c, 2) + 1 ELSE 0
    ELSE IF \E p \in 1..Len(c) : IsKeyColon(c, p)
    THEN CHOOSE p \in 1..Len(c) :
             IsKeyColon(c, p) /\ \A q \in 1..(p - 1) : ~IsKeyColon(c, q)
    ELSE 0

IsDash(c) == c # <<>> /\ c[1] = 45 /\ (Len(c) = 1 \/ c[2] = 32)

Content(lines, i, col) == Trim(SubSeq(lines[i], col + 1, Len(lines[i])))

\* line i with its first n characters blanked
Mask(lines, i, n) ==
    [lines EXCEPT ![i] = [k \in 1..Len(@) |-> IF k <= n THEN 32 ELSE @[k]]]

Parsed(ev, next) == [ev |-> ev, next |-> next]

Then(a, b) == Parsed(a.ev \o b.ev, b.next)

\* ParseNode: the node that starts on line i at column col; ParseValue: the
\* node after an indicator of line i, on the rest of the line or on the
\* lines below, indented deeper than col; ParseSeq and ParseMap: the
\* entries of a block collection from line i on.  Each gives the events and
\* the line where the node ends.
RECURSIVE ParseNode(_, _, _), ParseSeq(_, _, _), ParseMap(_, _, _)
ParseValue(lines, i, col) ==
    IF Indent(lines[i]) < Len(lines[i])
    THEN ParseNode(lines, i, Indent(lines[i]))
    ELSE IF i < Len(lines) /\ Indent(lines[i + 1]) > col
    THEN ParseNode(lines, i + 1, Indent(lines[i + 1]))
    ELSE Parsed(<<Scalar(<<126>>, NoTag)>>, i + 1)

SeqAfter(item, lines, col) == Then(item, ParseSeq(lines, item.next, col))

ParseSeq(lines, i, col) ==
    IF i > Len(lines) THEN Parsed(<<>>, i)
    ELSE IF Indent(lines[i]) # col \/ ~IsDash(Content(lines, i, col))
    THEN Parsed(<<>>, i)
    ELSE SeqAfter(ParseValue(Mask(lines, i, col + 1), i, col), lines, col)

MapAfter(key, value, lines, col) ==
    Then(Parsed(<<key>>, value.next),
         Then(value, ParseMap(lines, value.next, col)))

MapEntry(lines, i, col, c) ==
    MapAfter(ScalarEvent(Trim(SubSeq(c, 1, KeyColon(c) - 1))),
             ParseValue(Mask(lines, i, col + KeyColon(c)), i, col),
             lines, col)

ParseMap(lines, i, col) ==
    IF i > Len(lines) THEN Parsed(<<>>, i)
    ELSE IF Indent(lines[i]) # col \/ KeyColon(Content(lines, i, col)) = 0
    THEN Parsed(<<>>, i)
    ELSE MapEntry(lines, i, col, Content(lines, i, col))

Between(start, inner, end) ==
    Parsed(<<Event(start)>> \o inner.ev \o <<Event(end)>>, inner.next)

NodeAt(lines, i, col, c) ==
    IF IsDash(c)
    THEN Between("SequenceStart", ParseSeq(lines, i, col), "SequenceEnd")
    ELSE IF c = <<91, 93>>
    THEN Parsed(<<Event("SequenceStart"), Event("SequenceEnd")>>, i + 1)
    ELSE IF c = <<123, 125>>
    THEN Parsed(<<Event("MappingStart"), Event("MappingEnd")>>, i + 1)
    ELSE IF KeyColon(c) > 0
    THEN Between("MappingStart", ParseMap(lines, i, col), "MappingEnd")
    ELSE Parsed(<<ScalarEvent(c)>>, i + 1)

ParseNode(lines, i, col) == NodeAt(lines, i, col, Content(lines, i, col))

\* the lines of the document: the "---" line and blank lines are dropped
DocumentLines(lines) ==
    SelectSeq(IF lines[1] = <<45, 45, 45>> THEN Tail(lines) ELSE lines,
              LAMBDA l : Indent(l) < Len(l))

DocumentEvents(lines, root) ==
    IF root.next = Len(lines) + 1
    THEN Ok(<<Event("DocumentStart")>> \o root.ev \o <<Event("DocumentEnd")>>)
    ELSE Err

ParseDocument(lines) ==
    IF lines = <<>>
    THEN Ok(<<Event("DocumentStart"), Scalar(<<126>>, NoTag),
              Event("DocumentEnd")>>)
    ELSE DocumentEvents(lines, ParseNode(lines, 1, Indent(lines[1])))

\* Parser::load: the events of the text, or a scan error; the empty text
\* holds no document
Parser_load(source) ==
    IF source = <<>> THEN Ok(<<>>)
    ELSE ParseDocument(DocumentLines(SplitLines(source)))
(***************************************************************************)
(* yaml/parse.rs: BymlLoader and Byml::from_text.                          *)
(***************************************************************************)
\* base64::decode_config(.., STANDARD_NO_PAD) of the base64 releases that
\* have decode_config: trailing "=" are accepted with any Config.  The
\* error is the text that format!("{:?}", e) gives.
Base64Value(c) ==
    IF \E i \in 0..63 : Base64Char(i) = c
    THEN CHOOSE i \in 0..63 : Base64Char(i) = c
    ELSE -1

IsPad(c) == c = 61

NotPad(c) == c # 61

Unpadded(s) == SubSeq(s, 1, Len(s) - (FirstFrom(Reverse(s), 1, NotPad) - 1))

DecodeError(name, offset, byte) ==
    Utf8(name) \o <<40>> \o Digits(offset) \o <<44, 32>> \o Digits(byte) \o <<41>>

SextetBits(s) == Concat([i \in 1..Len(s) |-> ValueBits(Base64Value(s[i]), 6)])

DecodeBits(s, bits) ==
    IF \E i \in (8 * (Len(bits) \div 8) + 1)..Len(bits) : bits[i] = 1
    THEN <<"Err", DecodeError(<<"I", "n", "v", "a", "l", "i", "d", "L", "a", "s",
                                "t", "S", "y", "m", "b", "o", "l">>,
                              Len(s) - 1, s[Len(s)])>>
    ELSE Ok(BytesOf(SubSeq(bits, 1, 8 * (Len(bits) \div 8))))

DecodeUnpadded(s) ==
    IF \E i \in 1..Len(s) : Base64Value(s[i]) < 0
    THEN <<"Err", DecodeError(<<"I", "n", "v", "a", "l", "i", "d", "B", "y", "t",
                                "e">>,
                              (CHOOSE i \in 1..Len(s) :
                                  /\ Base64Value(s[i]) < 0
                                  /\ \A j \in 1..(i - 1) : Base64Value(s[j]) >= 0) - 1,
                              s[CHOOSE i \in 1..Len(s) :
                                  /\ Base64Value(s[i]) < 0
                                  /\ \A j \in 1..(i - 1) : Base64Value(s[j]) >= 0])>>
    ELSE IF Len(s) % 4 = 1
    THEN <<"Err", Utf8(<<"I", "n", "v", "a", "l", "i", "d", "L", "e", "n", "g",
                         "t", "h">>)>>
    ELSE DecodeBits(s, SextetBits(s))

base64_decode(s) == DecodeUnpadded(Unpadded(s))

\* v.split_whitespace().collect::<String>()
split_whitespace(v) == SelectSeq(v, LAMBDA c : c \notin {9, 10, 11, 12, 13, 32})

\* impl From<f32> for Float and From<f64> for Double are not among the
\* sources; the float is kept as its bits, with an endian under which
\* Into gives the float back
FloatFrom(bits) == [bits |-> bits, endian |-> "Big"]

BinaryNode(decoded) ==
    IF decoded[1] = "Ok" THEN Byml_Binary(decoded[2])
    ELSE Byml_String(decoded[2])

OrNull(variant, parsed_value) ==
    IF parsed_value[1] = "Ok" THEN <<variant, parsed_value[2]>> ELSE Byml_Null

FloatOrNull(variant, parsed_value) ==
    IF parsed_value[1] = "Ok" THEN <<variant, FloatFrom(parsed_value[2])>>
    ELSE Byml_Null

\* str::parse::<bool>
parse_bool(v) ==
    IF v = Utf8(<<"t", "r", "u", "e">>) THEN Ok(TRUE)
    ELSE IF v = Utf8(<<"f", "a", "l", "s", "e">>) THEN Ok(FALSE)
    ELSE Err

\* on_event, Event::Scalar with a tag: the node of the scalar v
TaggedScalar(v, handle, suffix) ==
    IF handle = Utf8(<<"!", "!">>)
    THEN CASE suffix = Utf8(<<"b", "o", "o", "l">>) -> OrNull("Bool", parse_bool(v))
           [] suffix = Utf8(<<"i", "n", "t">>) -> OrNull("Int", parse_i32(v))
           [] suffix = Utf8(<<"f", "l", "o", "a", "t">>) ->
                FloatOrNull("Float", parse_f32(v))
           [] suffix = Utf8(<<"n", "u", "l", "l">>) -> Byml_Null
           [] suffix = Utf8(<<"b", "i", "n", "a", "r", "y">>) ->
                BinaryNode(base64_decode(split_whitespace(v)))
           [] OTHER -> Byml_String(v)
    ELSE IF handle = Utf8(<<"!">>)
    THEN CASE suffix = Utf8(<<"u">>) -> OrNull("UInt", parse_int_u32(v))
           [] suffix = Utf8(<<"l">>) -> OrNull("Int64", parse_i64(v))
           [] suffix = Utf8(<<"f", "6", "4">>) -> FloatOrNull("Double", parse_f64(v))
           [] suffix = Utf8(<<"u", "l">>) -> OrNull("UInt64", parse_u64(v))
           [] suffix = Utf8(<<"b", "i", "n", "a", "r", "y">>) ->
                BinaryNode(base64_decode(split_whitespace(v)))
           [] OTHER -> Byml_String(v)
    ELSE Byml_String(v)

\* the same with the two numeric tests in the other order
UntaggedScalar_float_first(v) ==
    IF parse_f32(v)[1] = "Ok" THEN <<"Float", FloatFrom(parse_f32(v)[2])>>
    ELSE IF parse_i32(v)[1] = "Ok" THEN Byml_Int(parse_i32(v)[2])
    ELSE IF v = Utf8(<<"t", "r", "u", "e">>) THEN Byml_Bool(TRUE)
    ELSE IF v = Utf8(<<"f", "a", "l", "s", "e">>) THEN Byml_Bool(FALSE)
    ELSE Byml_String(v)

\* on_event, Event::Scalar without a tag
UntaggedScalar(v) ==
    IF parse_i32(v)[1] = "Ok" THEN Byml_Int(parse_i32(v)[2])
    ELSE IF parse_f32(v)[1] = "Ok" THEN <<"Float", FloatFrom(parse_f32(v)[2])>>
    ELSE IF v = Utf8(<<"t", "r", "u", "e">>) THEN Byml_Bool(TRUE)
    ELSE IF v = Utf8(<<"f", "a", "l", "s", "e">>) THEN Byml_Bool(FALSE)
    ELSE Byml_String(v)

ScalarNode(v, tag) ==
    IF tag # NoTag THEN TaggedScalar(v, tag[1], tag[2]) ELSE UntaggedScalar(v)

\* BTreeMap::insert on the iteration sequence
BTreeMapInsert(h, k, v) ==
    IF \E i \in 1..Len(h) : h[i].k = k
    THEN [i \in 1..Len(h) |-> IF h[i].k = k THEN [k |-> k, v |-> v] ELSE h[i]]
    ELSE SelectSeq(h, LAMBDA e : StrLess(e.k, k)) \o <<[k |-> k, v |-> v]>>
         \o SelectSeq(h, LAMBDA e : StrLess(k, e.k))

\* the loader: docs, doc_stack (the nodes; the anchor ids are never read),
\* key_stack, and whether an unwrap or an unreachable!() has panicked
BymlLoader_new ==
    [docs |-> <<>>, doc_stack |-> <<>>, key_stack |-> <<>>, panicked |-> FALSE]

Panicked(self) == [self EXCEPT !.panicked = TRUE]

SetLast(s, x) == [s EXCEPT ![Len(s)] = x]

Front(s) == SubSeq(s, 1, Len(s) - 1)

Last(s) == s[Len(s)]

insert_into_hash(self, parent, cur_key, node) ==
    IF cur_key = <<>>
    THEN IF node[1] = "String"
         THEN [self EXCEPT !.key_stack = SetLast(@, node[2])]
         ELSE Panicked(self)
    ELSE [self EXCEPT
            !.key_stack = SetLast(@, <<>>),
            !.doc_stack = SetLast(@, Byml_Hash(BTreeMapInsert(parent[2], cur_key, node)))]

insert_new_node(self, node) ==
    IF self.doc_stack = <<>>
    THEN [self EXCEPT !.doc_stack = Append(@, node)]
    ELSE IF Last(self.doc_stack)[1] = "Array"
    THEN [self EXCEPT
            !.doc_stack = SetLast(@, Byml_Array(Append(Last(@)[2], node)))]
    ELSE IF Last(self.doc_stack)[1] = "Hash"
    THEN IF self.key_stack = <<>> THEN Panicked(self)
         ELSE insert_into_hash(self, Last(self.doc_stack), Last(self.key_stack), node)
    ELSE Panicked(self)

\* MarkedEventReceiver::on_event
on_event(self, ev) ==
    IF self.panicked THEN self
    ELSE CASE ev[1] = "DocumentStart" -> self
           [] ev[1] = "DocumentEnd" ->
                IF Len(self.doc_stack) = 0
                THEN [self EXCEPT !.docs = Append(@, Byml_Null)]
                ELSE IF Len(self.doc_stack) = 1
                THEN [self EXCEPT !.docs = Append(@, Last(self.doc_stack)),
                                  !.doc_stack = Front(@)]
                ELSE Panicked(self)
           [] ev[1] = "SequenceStart" ->
                [self EXCEPT !.doc_stack = Append(@, Byml_Array(<<>>))]
           [] ev[1] = "SequenceEnd" ->
                IF self.doc_stack = <<>> THEN Panicked(self)
                ELSE insert_new_node([self EXCEPT !.doc_stack = Front(@)],
                                     Last(self.doc_stack))
           [] ev[1] = "MappingStart" ->
                [self EXCEPT !.doc_stack = Append(@, Byml_Hash(<<>>)),
                             !.key_stack = Append(@, <<>>)]
           [] ev[1] = "MappingEnd" ->
                IF self.key_stack = <<>> \/ self.doc_stack = <<>>
                THEN Panicked(self)
                ELSE insert_new_node([self EXCEPT !.doc_stack = Front(@),
                                                  !.key_stack = Front(@)],
                                     Last(self.doc_stack))
           [] ev[1] = "Scalar" -> insert_new_node(self, ScalarNode(ev[2], ev[3]))
           [] OTHER -> self

\* Parser::load drives on_event with the events in turn; after a panic no
\* event is delivered
RECURSIVE Receive(_, _)
Receive(self, events) ==
    IF self.panicked \/ events = <<>> THEN self
    ELSE Receive(on_event(self, Head(events)), Tail(events))

ScanError == <<"Err", <<"ScanError">>>>

IndexError == <<"Err", <<"Index error">>>>

\* BymlLoader::load_from_str: the documents, a scan error, or a panic
Loaded(self) == IF self.panicked THEN Panic ELSE Ok(self.docs)

load_from_str(source) ==
    IF Parser_load(source)[1] = "Err" THEN ScanError
    ELSE Loaded(Receive(BymlLoader_new, Parser_load(source)[2]))

\* Byml::from_text: the first document
FirstDocument(result) ==
    IF result[1] # "Ok" THEN result
    ELSE IF result[2] = <<>> THEN IndexError
    ELSE Ok(result[2][1])

from_text(text) == FirstDocument(load_from_str(text))

(***************************************************************************)
(* The text format's state machine: a document is emitted by to_text and   *)
(* the text is loaded by from_text, or a given text is loaded.             *)
(***************************************************************************)
\* the bits of 1.5f32
F32OneAndHalf == <<63, 192, 0, 0>>

\* the leaves of the documents that are emitted: one node of every variant
\* that is no container, and a second Float
TextLeaves == Leaves \cup {Byml_Float(F32OneAndHalf, "Little")}

TextDocs == Trees(MaxTextNodes, TextLeaves)

\* the texts that are loaded without having been emitted: scalars of every
\* kind, and collections with the scalars as elements, keys and values
ScalarTexts ==
    { Utf8(<<"~">>), Utf8(<<"1">>), Utf8(<<"-", "2">>), Utf8(<<"+", "3">>),
      Utf8(<<"0">>), Utf8(<<"2", "1", "4", "7", "4", "8", "3", "6", "4", "7">>),
      Utf8(<<"2", "1", "4", "7", "4", "8", "3", "6", "4", "8">>),
      Utf8(<<"-", "2", "1", "4", "7", "4", "8", "3", "6", "4", "8">>),
      Utf8(<<"1", ".", "5">>), Utf8(<<"1", ".">>), Utf8(<<".", "5">>),
      Utf8(<<"1", "e", "1">>), Utf8(<<"i", "n", "f">>), Utf8(<<"N", "a", "N">>),
      Utf8(<<"t", "r", "u", "e">>), Utf8(<<"f", "a", "l", "s", "e">>),
      Utf8(<<"T", "r", "u", "e">>), Utf8(<<"x">>), Utf8(<<"a", "b">>),
      Utf8(<<"1", "x">>), Utf8(<<"0", "x", "1", "0">>),
      Utf8(<<"quote", "1", "quote">>), Utf8(<<"!", "u", " ", "3">>),
      Utf8(<<"!", "u", " ", "0", "x", "1", "0">>), Utf8(<<"!", "u", " ", "-", "1">>),
      Utf8(<<"!", "l", " ", "-", "5">>), Utf8(<<"!", "u", "l", " ", "6">>),
      Utf8(<<"!", "f", "6", "4", " ", "1", ".", "0">>),
      Utf8(<<"!", "!", "b", "i", "n", "a", "r", "y", " ", "B", "w", "=", "=">>),
      Utf8(<<"!", "!", "b", "i", "n", "a", "r", "y", " ", "B", "w">>),
      Utf8(<<"!", "!", "b", "i", "n", "a", "r", "y", " ", "B", "?">>),
      Utf8(<<"!", "!", "i", "n", "t", " ", "7">>),
      Utf8(<<"!", "!", "n", "u", "l", "l", " ", "~">>),
      Utf8(<<"!", "x", " ", "y">>) }

TextInputs ==
    ScalarTexts
    \cup {Utf8(<<"-", " ">>) \o s : s \in ScalarTexts}
    \cup {Utf8(<<"a", ":", " ">>) \o s : s \in ScalarTexts}
    \cup {s \o Utf8(<<":", " ", "x">>) : s \in ScalarTexts}
    \cup {s \o Utf8(<<":", " ", "x", "\n">>) \o t \o Utf8(<<":", " ", "~">>) :
            s \in {Utf8(<<"a">>), Utf8(<<"0">>)}, t \in {Utf8(<<"b">>), Utf8(<<"1">>)}}
    \cup {<<>>, Utf8(<<"-", "-", "-">>), Utf8(<<"[", "]">>), Utf8(<<"{", "}">>)}

InitText ==
    /\ \/ doc \in TextDocs /\ other = NoValue
       \/ doc = NoValue /\ other \in TextInputs
    /\ endian = "none"
    /\ version = 0
    /\ pc = "ready"
    /\ ret = NoRet
    /\ parsed = ParseError
    /\ out = NoValue
    /\ NoFeed

\* text = doc.to_text()
ToText ==
    /\ pc = "ready"
    /\ doc # NoValue
    /\ other' = to_text(doc)
    /\ pc' = "emitted"
    /\ UNCHANGED <<doc, endian, version, ret, parsed, out,
                   stream, delivered, loader>>

\* Byml::from_text(text), of the text just emitted or of the given one
FromText ==
    /\ \/ pc = "ready" /\ doc = NoValue /\ pc' = "loaded"
       \/ pc = "emitted" /\ pc' = "reloaded"
    /\ out' = from_text(other)
    /\ UNCHANGED <<doc, endian, version, ret, parsed, other,
                   stream, delivered, loader>>

NextText == ToText \/ FromText

SpecText == InitText /\ [][NextText]_vars

(***************************************************************************)
(* The same state machine on mappings whose keys are the empty string, a   *)
(* and b.                                                                  *)
(***************************************************************************)
KeyNames == {<<>>, StrA, StrB}

KeyValues ==
    { Byml_String(StrA), Byml_String(StrAB), Byml_Int(-2), Byml_Array(<<>>),
      Byml_Hash(<<>>), HashOf(<<StrA>>, <<Byml_String(StrB)>>),
      HashOf(<<<<>>>>, <<Byml_String(StrB)>>) }

\* the Hashes of one or two entries
KeyDocs ==
    {HashOf(<<k>>, <<v>>) : k \in KeyNames, v \in KeyValues}
    \cup {HashOf(ks, vs) : ks \in {s \in [1..2 -> KeyNames] : StrLess(s[1], s[2])},
                           vs \in [1..2 -> KeyValues]}

\* mappings that are loaded without having been emitted
KeyTexts ==
    { Utf8(<<"quote", "quote", ":", " ", "x">>),
      Utf8(<<"quote", "quote", ":", " ", "1">>),
      Utf8(<<"apostrophe", "apostrophe", ":", " ", "x", "\n", "a", ":", " ", "y">>),
      Utf8(<<"a", ":", " ", "x", "\n", "b", ":", " ", "y">>),
      Utf8(<<"a", ":", " ", "x", "\n", "quote", "quote", ":", " ", "y">>) }

InitKeys ==
    /\ \/ doc \in KeyDocs /\ other = NoValue
       \/ doc = NoValue /\ other \in KeyTexts
    /\ endian = "none"
    /\ version = 0
    /\ pc = "ready"
    /\ ret = NoRet
    /\ parsed = ParseError
    /\ out = NoValue
    /\ NoFeed

SpecKeys == InitKeys /\ [][NextText]_vars

(***************************************************************************)
(* The same state machine on documents of Arrays, Hashes and Strings, the  *)
(* Strings being texts that also read as an Int, a Float, a Bool or Null,  *)
(* the empty string and a plain word.                                      *)
(***************************************************************************)
\* the largest number of nodes of these documents
MaxStringNodes == 3

StringLeaves ==
    { Byml_String(Utf8(<<"1", "2", "3">>)), Byml_String(Utf8(<<"1", ".", "5">>)),
      Byml_String(Utf8(<<"t", "r", "u", "e">>)), Byml_String(Utf8(<<"~">>)),
      Byml_String(<<>>), Byml_String(StrAB) }

StringDocs == Trees(MaxStringNodes, StringLeaves)

\* quoted scalars that are loaded without having been emitted
StringTexts ==
    { Utf8(<<"quote", "1", "2", "3", "quote">>),
      Utf8(<<"apostrophe", "t", "r", "u", "e", "apostrophe">>),
      Utf8(<<"-", " ", "quote", "~", "quote">>) }

InitStrings ==
    /\ \/ doc \in StringDocs /\ other = NoValue
       \/ doc = NoValue /\ other \in StringTexts
    /\ endian = "none"
    /\ version = 0
    /\ pc = "ready"
    /\ ret = NoRet
    /\ parsed = ParseError
    /\ out = NoValue
    /\ NoFeed

SpecStrings == InitStrings /\ [][NextText]_vars

(***************************************************************************)
(* The loader fed event by event, as Parser::load feeds it: every           *)
(* well-nested event sequence of one document of at most MaxEventNodes     *)
(* nodes, the empty document and the empty stream.  A mapping holds an     *)
(* even number of nodes; a key is any node.                                *)
(***************************************************************************)
MaxEventNodes == 3

\* the scalars delivered: a word, the empty string, a number, a tagged one
EventScalars ==
    { Scalar(Utf8(<<"x">>), NoTag), Scalar(<<>>, NoTag), Scalar(Utf8(<<"1">>), NoTag),
      Scalar(Utf8(<<"3">>), <<Utf8(<<"!">>), Utf8(<<"u">>)>>) }

RECURSIVE NodeEvents(_), SequenceEvents(_), MappingEvents(_)
NodeEvents(n) ==
    IF n <= 0 THEN {}
    ELSE {<<s>> : s \in EventScalars}
         \cup {<<Event("SequenceStart")>> \o f \o <<Event("SequenceEnd")>> :
                 f \in SequenceEvents(n - 1)}
         \cup {<<Event("MappingStart")>> \o f \o <<Event("MappingEnd")>> :
                 f \in MappingEvents(n - 1)}

SequenceEvents(m) ==
    {<<>>} \cup
    UNION {{t \o f : t \in NodeEvents(s), f \in SequenceEvents(m - s)} : s \in 1..m}

MappingEvents(m) ==
    {<<>>} \cup
    UNION {{k \o v \o f : k \in NodeEvents(p[1]), v \in NodeEvents(p[2]),
                          f \in MappingEvents(m - p[1] - p[2])}
             : p \in {q \in (1..m) \X (1..m) : q[1] + q[2] <= m}}

EventStreams ==
    {<<>>, <<Event("DocumentStart"), Event("DocumentEnd")>>}
    \cup {<<Event("DocumentStart")>> \o t \o <<Event("DocumentEnd")>> :
            t \in NodeEvents(MaxEventNodes)}

InitEvents ==
    /\ stream \in EventStreams
    /\ delivered = 0
    /\ loader = BymlLoader_new
    /\ doc = NoValue
    /\ other = NoValue
    /\ endian = "none"
    /\ version = 0
    /\ pc = "ready"
    /\ ret = NoRet
    /\ parsed = ParseError
    /\ out = NoValue

\* Parser::load hands the next event to on_event
OnEvent ==
    /\ pc = "ready"
    /\ delivered < Len(stream)
    /\ ~loader.panicked
    /\ loader' = on_event(loader, stream[delivered + 1])
    /\ delivered' = delivered + 1
    /\ UNCHANGED <<doc, endian, version, pc, ret, parsed, other, out, stream>>

\* load_from_str returns the documents and from_text takes the first, or
\* the panic unwinds
Return ==
    /\ pc = "ready"
    /\ delivered = Len(stream) \/ loader.panicked
    /\ out' = FirstDocument(Loaded(loader))
    /\ pc' = "loaded"
    /\ UNCHANGED <<doc, endian, version, ret, parsed, other,
                   stream, delivered, loader>>

NextEvents == OnEvent \/ Return

SpecEvents == InitEvents /\ [][NextEvents]_vars

(***************************************************************************)
(* to_binary on documents whose leaves are the variants kept in the        *)
(* parent's slot: both Bools, an Int, a UInt, two Strings, and Floats of   *)
(* either endian tag.                                                      *)
(***************************************************************************)
\* the largest number of nodes of these documents
MaxInlineNodes == 3

InlineLeaves ==
    { Byml_Bool(TRUE), Byml_Bool(FALSE), Byml_Int(-2), Byml_UInt(3),
      Byml_Float(F32One, "Big"), Byml_Float(F32OneAndHalf, "Little"),
      Byml_String(StrA), Byml_String(StrAB) }

InlineDocs == Trees(MaxInlineNodes, InlineLeaves)

InitInline == InitWith(InlineDocs)

SpecInline == InitInline /\ [][Next]_vars

(***************************************************************************)
(* to_binary on documents whose leaves are Strings of 0 to 4 bytes, so     *)
(* that a table entry with its NUL ends before, at and after a multiple    *)
(* of 4.                                                                   *)
(***************************************************************************)
\* the largest number of nodes of these documents
MaxTableNodes == 3

StrABC == <<97, 98, 99>>

StrABCD == <<97, 98, 99, 100>>

TableDocs ==
    Trees(MaxTableNodes,
          { Byml_String(<<>>), Byml_String(StrA), Byml_String(StrAB),
            Byml_String(StrABC), Byml_String(StrABCD) })

InitTables == InitWith(TableDocs)

SpecTables == InitTables /\ [][Next]_vars

(***************************************************************************)
(* What the properties below speak of.                                     *)
(***************************************************************************)
\* every node of the tree n, n included
RECURSIVE Subtrees(_)
Subtrees(n) ==
    {n} \cup
    (CASE n[1] = "Array" -> UNION {Subtrees(n[2][i]) : i \in 1..Len(n[2])}
       [] n[1] = "Hash" -> UNION {Subtrees(n[2][i].v) : i \in 1..Len(n[2])}
       [] OTHER -> {})

\* the keys of the Hash nodes of n, at any depth
AllKeys(n) ==
    UNION {{h[2][i].k : i \in 1..Len(h[2])} : h \in {x \in Subtrees(n) : x[1] = "Hash"}}

\* the payloads of the String nodes of n, at any depth
AllStrings(n) == {x[2] : x \in {y \in Subtrees(n) : y[1] = "String"}}

IsStrictlySorted(s) == \A i \in 1..(Len(s) - 1) : StrLess(s[i], s[i + 1])

\* the u24 held in the three bytes of the output at off (counted from 0)
U24At(bytes, off, e) ==
    IF e = "Big"
    THEN bytes[off + 1] * 65536 + bytes[off + 2] * 256 + bytes[off + 3]
    ELSE bytes[off + 3] * 65536 + bytes[off + 2] * 256 + bytes[off + 1]

\* the u32 held in the four bytes of the output at off (small values only)
U32At(bytes, off, e) ==
    IF e = "Big"
    THEN bytes[off + 1] * 16777216 + U24At(bytes, off + 1, e)
    ELSE bytes[off + 4] * 16777216 + U24At(bytes, off, e)

\* the roots write_binary hands to the writer, and those it refuses
RootVariants == {"Array", "Hash", "Null"}

ValidVersions == {2, 3, 4}

\* to_binary has returned
Returned == pc # "ready"

\* to_binary has returned Ok
Encoded == pc # "ready" /\ ret.ok

\* the bodies write_offset_node emitted, and the slots filled from
\* written_nodes, in the call that returned
Bodies == ret.writer.bodies

Reused == ret.writer.reused

(***************************************************************************)
(* C1..C10: the binary writer.                                             *)
(***************************************************************************)
\* C1: binary round trip.  For every document whose root is an Array or a
\* Hash, every endian and every version in {2,3,4}, to_binary succeeds and
\* from_binary of its bytes is a document equal to the input under eq.
C1_RoundTrip ==
    (Returned /\ is_container(doc) /\ version \in ValidVersions) =>
        /\ ret.ok
        /\ pc = "parsed" => eq(parsed, doc)

\* C2: a Null root is an accepted root.  With a version in {2,3,4} to_binary
\* succeeds on Null and returns 16 bytes, the magic and the version followed
\* by three zero offsets; for Big and version 2 these are 42 59 00 02 and
\* twelve zero bytes.
C2_NullRoot ==
    (Returned /\ doc = Byml_Null /\ version \in ValidVersions) =>
        /\ ret.ok
        /\ Len(ret.bytes) = 16
        /\ SubSeq(ret.bytes, 5, 16) = [i \in 1..12 |-> 0]
        /\ (endian = "Big" /\ version = 2) =>
               ret.bytes = <<66, 89, 0, 2>> \o [i \in 1..12 |-> 0]

\* C3: root-type check.  For a root that is a Bool, Int, UInt, Float, String,
\* Binary, Int64, UInt64 or Double and a version in {2,3,4}, to_binary
\* returns the root-type error and no bytes.
C3_RootTypeCheck ==
    (Returned /\ doc[1] \notin RootVariants /\ version \in ValidVersions) =>
        /\ ~ret.ok
        /\ ret.err = ErrSerialize
        /\ ret.bytes = <<>>
        /\ ret.writer.buf = <<>>

C3_Witness ==
    /\ Returned
    /\ doc = Byml_Double(F64One, "Little")
    /\ version = 3
    /\ ret.err = ErrSerialize

\* C4: version check.  For every document and every version outside
\* {2,3,4}, to_binary returns the version error and no bytes; for a version
\* in {2,3,4} it never returns the version error, and what it returns for
\* version 2 (Ok, or which error) is what it returns for 3 and for 4.
C4_VersionCheck ==
    Returned =>
        /\ version \notin ValidVersions =>
               ~ret.ok /\ ret.err = ErrVersion /\ ret.bytes = <<>>
        /\ version \in ValidVersions => ret.err # ErrVersion
        /\ version = 2 =>
               \A v \in ValidVersions : to_binary(doc, endian, v).err = ret.err

C4_Witness ==
    /\ Returned
    /\ version = 65535
    /\ is_container(doc)
    /\ Len(doc[2]) = 2
    /\ ret.err = ErrVersion

\* C5: deduplication soundness.  In a successful encode no two bodies are
\* emitted for Hash or Array subtrees that are equal under eq (which takes
\* Float and Double by value, whatever the endian tag), and a slot filled
\* from the map holds the offset of the one body of the subtrees equal to
\* its child.
C5_DedupSound ==
    Encoded =>
        /\ \A i, j \in 1..Len(Bodies) :
               (/\ is_container(Bodies[i].node)
                /\ is_container(Bodies[j].node)
                /\ eq(Bodies[i].node, Bodies[j].node)) => i = j
        /\ \A i \in 1..Len(Reused), j \in 1..Len(Bodies) :
               (/\ is_container(Reused[i].node)
                /\ eq(Reused[i].node, Bodies[j].node)) =>
                   Reused[i].off = Bodies[j].off

\* C6: offset reuse is sound.  Whenever a slot is filled with an offset
\* taken from written_nodes, the node whose body was emitted at that offset
\* is equal to the child: unequal nodes never share an offset.
C6_ReuseSound ==
    Encoded =>
        \A i \in 1..Len(Reused) :
            \E j \in 1..Len(Bodies) :
                /\ Bodies[j].off = Reused[i].off
                /\ eq(Bodies[j].node, Reused[i].node)

\* C7: key ordering.  In every Hash body of a successful encode the key_idx
\* fields of consecutive entries, as read from the output, are strictly
\* increasing.
C7_KeyOrder ==
    Encoded =>
        \A j \in 1..Len(Bodies) :
            Bodies[j].node[1] = "Hash" =>
                /\ ret.bytes[Bodies[j].off + 1] = NodeTypeTag("Hash")
                /\ U24At(ret.bytes, Bodies[j].off + 1, endian) = Len(Bodies[j].node[2])
                /\ \A i \in 1..(Len(Bodies[j].node[2]) - 1) :
                       U24At(ret.bytes, Bodies[j].off + 4 + 8 * (i - 1), endian)
                         < U24At(ret.bytes, Bodies[j].off + 4 + 8 * i, endian)

C7_Witness ==
    /\ Encoded
    /\ \E j \in 1..Len(Bodies) :
         /\ Bodies[j].node[1] = "Hash"
         /\ Len(Bodies[j].node[2]) = 2
         /\ U24At(ret.bytes, Bodies[j].off + 4, endian) = 0
         /\ U24At(ret.bytes, Bodies[j].off + 12, endian) = 1

\* C8: alignment.  In a successful encode the key table, the value table,
\* the root body and every body of an Array, Hash, Binary, Int64, UInt64 or
\* Double start at a multiple of 4, and the header holds these table and
\* root offsets.
C8_Alignment ==
    Encoded =>
        /\ \A i \in 1..Len(ret.writer.tables) : ret.writer.tables[i].off % 4 = 0
        /\ \A j \in 1..Len(Bodies) : Bodies[j].off % 4 = 0
        /\ Bodies[Len(Bodies)].node = doc
        /\ U32At(ret.bytes, 12, endian) = Bodies[Len(Bodies)].off
        /\ U32At(ret.bytes, 4, endian) % 4 = 0
        /\ U32At(ret.bytes, 8, endian) % 4 = 0
        /\ {U32At(ret.bytes, 4, endian), U32At(ret.bytes, 8, endian)} \ {0}
             = {ret.writer.tables[i].off : i \in 1..Len(ret.writer.tables)}

\* a body follows a Binary whose length is no multiple of 4
C8_Witness ==
    /\ Encoded
    /\ \E j \in 1..(Len(Bodies) - 1) :
         /\ Bodies[j].node[1] = "Binary"
         /\ Len(Bodies[j].node[2]) % 4 # 0
         /\ Bodies[j + 1].node[1] \in {"Int64", "UInt64", "Double", "Binary"}
         /\ Bodies[j + 1].off > Bodies[j].off + 4 + Len(Bodies[j].node[2])

\* C9: deterministic encode.  For a fixed endian and version, two documents
\* that are equal under eq encode to the same bytes.
C9_Deterministic ==
    Encoded =>
        \A d \in ShareDocs :
            eq(doc, d) => to_binary(d, endian, version).bytes = ret.bytes

\* C10: string interning.  For every document the writer is made for, its
\* key table is the set of the keys of all Hash nodes and its value table the
\* set of the payloads of all String nodes, at any depth; each is without
\* duplicates and strictly increasing in byte order; and a successful encode
\* writes the non-empty ones, the key table first.
C10_Interning ==
    (Returned /\ doc[1] \in RootVariants /\ version \in ValidVersions) =>
        /\ Range(ret.writer.keys) = AllKeys(doc)
        /\ Range(ret.writer.strings) = AllStrings(doc)
        /\ IsStrictlySorted(ret.writer.keys)
        /\ IsStrictlySorted(ret.writer.strings)
        /\ ret.ok =>
               [i \in 1..Len(ret.writer.tables) |-> ret.writer.tables[i].strings]
                 = SelectSeq(<<ret.writer.keys, ret.writer.strings>>,
                             LAMBDA t : t # <<>>)

\* a key that is no value, a value that is no key, a string that is both
C10_Witness ==
    /\ Encoded
    /\ ret.writer.keys = <<StrA, StrB>>
    /\ ret.writer.strings = <<StrA, StrAB>>

(***************************************************************************)
(* C11..C20: the header, failures, equality, indexing, the text format,    *)
(* inline and offset children.                                             *)
(***************************************************************************)
\* the document Hash{"a": Int(-2)}
HashAInt == Byml_Hash(<<[k |-> StrA, v |-> Byml_Int(-2)]>>)

\* C11: omitted tables.  In every successful encode the header's
\* hash_table_offset is 0 exactly when the document has no Hash key, its
\* string_table_offset is 0 exactly when it has no String node, and no empty
\* table is emitted.  Hash{"a": Int(-2)}, Little, version 2, gives magic
\* 59 42, a key table holding "a" alone, no value table and a root Hash
\* with the one entry {key_idx 0, tag 0xD1, value -2}.
C11_OmittedTables ==
    Encoded =>
        /\ U32At(ret.bytes, 4, endian) = 0 <=> AllKeys(doc) = {}
        /\ U32At(ret.bytes, 8, endian) = 0 <=> AllStrings(doc) = {}
        /\ \A i \in 1..Len(ret.writer.tables) : ret.writer.tables[i].strings # <<>>
        /\ Len(ret.writer.tables)
             = (IF AllKeys(doc) = {} THEN 0 ELSE 1)
               + (IF AllStrings(doc) = {} THEN 0 ELSE 1)
        /\ (doc = HashAInt /\ endian = "Little" /\ version = 2) =>
               ret.bytes = << 89, 66, 2, 0,   16, 0, 0, 0,   0, 0, 0, 0,   32, 0, 0, 0,
                              194, 1, 0, 0,   12, 0, 0, 0,   16, 0, 0, 0,   97, 0, 0, 0,
                              193, 1, 0, 0,   0, 0, 0, 209,  254, 255, 255, 255 >>

C11_Witness ==
    /\ Encoded
    /\ doc = HashAInt
    /\ endian = "Little"
    /\ version = 2
    /\ U32At(ret.bytes, 4, endian) = 16
    /\ U32At(ret.bytes, 8, endian) = 0

\* the header's fields, as read from the output
U16At(bytes, off, e) ==
    IF e = "Big" THEN bytes[off + 1] * 256 + bytes[off + 2]
    ELSE bytes[off + 2] * 256 + bytes[off + 1]

HashTableOff == U32At(ret.bytes, 4, endian)

StrTableOff == U32At(ret.bytes, 8, endian)

RootNodeOff == U32At(ret.bytes, 12, endian)

\* C12: header correctness.  Every successful encode starts with 16 bytes:
\* the magic "BY" for Big and "YB" for Little, the requested version, three
\* offsets.  Each non-zero offset is at least 16 and is that of the first
\* byte of what it names (tag 0xC2 for a table, the root's tag for the
\* root); the structures present come in the order key table, value table,
\* root body, the first of them at 16.
C12_Header ==
    Encoded =>
        /\ Len(ret.bytes) >= 16
        /\ SubSeq(ret.bytes, 1, 2) = (IF endian = "Big" THEN <<66, 89>> ELSE <<89, 66>>)
        /\ U16At(ret.bytes, 2, endian) = version
        /\ HashTableOff # 0 =>
               /\ HashTableOff >= 16
               /\ HashTableOff < RootNodeOff
               /\ ret.bytes[HashTableOff + 1] = NodeTypeTag("StringTable")
        /\ StrTableOff # 0 =>
               /\ StrTableOff >= 16
               /\ StrTableOff < RootNodeOff
               /\ ret.bytes[StrTableOff + 1] = NodeTypeTag("StringTable")
        /\ (HashTableOff # 0 /\ StrTableOff # 0) => HashTableOff < StrTableOff
        /\ RootNodeOff >= 16
        /\ RootNodeOff < Len(ret.bytes)
        /\ ret.bytes[RootNodeOff + 1] = NodeTypeTag(get_type(doc))
        /\ (IF HashTableOff # 0 THEN HashTableOff
            ELSE IF StrTableOff # 0 THEN StrTableOff
            ELSE RootNodeOff) = 16

\* both tables and the root, under Big
C12_Witness ==
    /\ Encoded
    /\ endian = "Big"
    /\ version = 4
    /\ HashTableOff = 16
    /\ StrTableOff > 16
    /\ RootNodeOff > StrTableOff

\* C13: no partial output on failure.  Whenever write_binary returns an
\* error, the sink it was given holds no byte written by the call and its
\* cursor is where it was (the sink of to_binary starts empty, at 0), and
\* to_binary returns no bytes.
C13_NoPartialOutput ==
    (Returned /\ ~ret.ok) =>
        /\ ret.bytes = <<>>
        /\ ret.writer.buf = <<>>
        /\ ret.writer.pos = 0

\* same variant and equal payloads: a Float or Double by the value of its
\* bits whatever its tag, an Array by length and elements, a Hash by its key
\* set and the values under each key
RECURSIVE SameValue(_, _)
SameValue(a, b) ==
    /\ a[1] = b[1]
    /\ CASE a[1] \in {"Float", "Double"} -> IeeeEq(a[2].bits, b[2].bits)
         [] a[1] = "Array" ->
              /\ Len(a[2]) = Len(b[2])
              /\ \A i \in 1..Len(a[2]) : SameValue(a[2][i], b[2][i])
         [] a[1] = "Hash" ->
              /\ {a[2][i].k : i \in 1..Len(a[2])} = {b[2][i].k : i \in 1..Len(b[2])}
              /\ \A i \in 1..Len(a[2]), j \in 1..Len(b[2]) :
                     a[2][i].k = b[2][j].k => SameValue(a[2][i].v, b[2][j].v)
         [] OTHER -> a[2] = b[2]

\* C14: value equality.  a == b exactly when a and b are of the same variant
\* with equal payloads, Float and Double taken by numeric value (IEEE ==)
\* whatever the endian tag; nodes of different variants are never equal; and
\* a == b is b == a.
C14_Equality ==
    pc = "eq" =>
        /\ out = SameValue(doc, other)
        /\ out = eq(other, doc)
        /\ doc[1] # other[1] => out = FALSE

\* two Floats that differ in the tag alone are equal
C14_Witness ==
    /\ pc = "eq"
    /\ doc = Byml_Array(<<Byml_Float(F32One, "Big")>>)
    /\ other = Byml_Array(<<Byml_Float(F32One, "Little")>>)
    /\ out = TRUE

\* C15: indexing.  node[i] gives a value only when node is an Array and i is
\* less than its length, and then its i-th child; node[k] only when node is
\* a Hash with the key k, and then the value under k; everything else (index
\* out of range, key missing, an integer on a non-Array, a string on a
\* non-Hash) panics.
C15_Indexing ==
    pc = "indexed" =>
        /\ out # Panic <=>
             \/ other[1] = "Index" /\ doc[1] = "Array" /\ other[2] < Len(doc[2])
             \/ /\ other[1] = "Key"
                /\ doc[1] = "Hash"
                /\ \E i \in 1..Len(doc[2]) : doc[2][i].k = other[2]
        /\ (out # Panic /\ other[1] = "Index") => out = doc[2][other[2] + 1]
        /\ (out # Panic /\ other[1] = "Key") =>
               \E i \in 1..Len(doc[2]) : doc[2][i].k = other[2] /\ out = doc[2][i].v

\* the second child of an Array of two
C15_Witness ==
    /\ pc = "indexed"
    /\ doc = Byml_Array(<<Byml_Null, Byml_Int(-2)>>)
    /\ other = BymlIndex_Index(1)
    /\ out = Byml_Int(-2)

\* the pairs <<x, y>> of a node x of the tree d and the node y that stands
\* at the same place in the tree o, as far down as the two trees have the
\* same shape
RECURSIVE Corresponding(_, _)
Corresponding(d, o) ==
    {<<d, o>>} \cup
    (IF d[1] = "Array" /\ o[1] = "Array" /\ Len(d[2]) = Len(o[2])
     THEN UNION {Corresponding(d[2][i], o[2][i]) : i \in 1..Len(d[2])}
     ELSE IF d[1] = "Hash" /\ o[1] = "Hash" /\ Len(d[2]) = Len(o[2])
     THEN UNION {Corresponding(d[2][i].v, o[2][i].v) : i \in 1..Len(d[2])}
     ELSE {})

\* C16: the untagged scalar ~ loads as Null, as the root, as an Array
\* element and as a Hash value, so every Null node of an emitted document
\* is Null again in the document loaded from the emitted text
C16_TextNull ==
    /\ pc = "loaded" /\ other = Utf8(<<"~">>) => out = Ok(Byml_Null)
    /\ pc = "loaded" /\ other = Utf8(<<"-", " ", "~">>)
         => out = Ok(Byml_Array(<<Byml_Null>>))
    /\ pc = "loaded" /\ other = Utf8(<<"a", ":", " ", "~">>)
         => out = Ok(Byml_Hash(<<[k |-> StrA, v |-> Byml_Null]>>))
    /\ pc = "reloaded"
         => /\ out[1] = "Ok"
            /\ \A p \in Corresponding(doc, out[2]) :
                 p[1][1] = "Null" => p[2][1] = "Null"

\* the events of a text that holds one mapping of scalars: the scalar
\* events between MappingStart and MappingEnd, keys at the odd places
EntryEvents(events) == SubSeq(events, 3, Len(events) - 2)

IsScalarMapping(parse) ==
    /\ parse[1] = "Ok"
    /\ Len(parse[2]) >= 6
    /\ parse[2][2][1] = "MappingStart"
    /\ \A i \in 1..Len(EntryEvents(parse[2])) : EntryEvents(parse[2])[i][1] = "Scalar"

\* the string a key scalar is stored under: the decimal form of an
\* integer, the text of any other scalar
KeyString(v) ==
    IF parse_i32(v)[1] = "Ok" THEN DisplayInt(parse_i32(v)[2]) ELSE v

ReadsAsNumberOrBool(v) ==
    \/ parse_i32(v)[1] = "Ok"
    \/ parse_f32(v)[1] = "Ok"
    \/ parse_bool(v)[1] = "Ok"

\* C17: a mapping whose untagged key scalar reads as an integer, a float or
\* a bool loads, and the entry is stored under the key's string
C17_IntegerKeys ==
    pc = "loaded" /\ IsScalarMapping(Parser_load(other))
      => \A i \in 1..Len(EntryEvents(Parser_load(other)[2])) :
            LET key == EntryEvents(Parser_load(other)[2])[i]
            IN  i % 2 = 1 /\ key[3] = NoTag /\ ReadsAsNumberOrBool(key[2])
                  => /\ out[1] = "Ok"
                     /\ out[2][1] = "Hash"
                     /\ \E j \in 1..Len(out[2][2]) :
                           out[2][2][j].k = KeyString(key[2])

\* the node n is what the scalar text v stands for when the tests are made
\* in the order Int, Float, Bool, String
Disambiguated(v, n) ==
    IF parse_i32(v)[1] = "Ok"
    THEN n[1] = "Int" /\ n[2] = parse_i32(v)[2]
    ELSE IF parse_f32(v)[1] = "Ok"
    THEN n[1] = "Float" /\ FloatInto(n[2]) = parse_f32(v)[2]
    ELSE IF v = Utf8(<<"t", "r", "u", "e">>)
    THEN n[1] = "Bool" /\ n[2] = TRUE
    ELSE IF v = Utf8(<<"f", "a", "l", "s", "e">>)
    THEN n[1] = "Bool" /\ n[2] = FALSE
    ELSE n[1] = "String" /\ n[2] = v

IsUntagged(ev) == ev[1] = "Scalar" /\ ev[3] = NoTag

\* C18: an untagged scalar, as the root, as the element of a sequence or as
\* the value of a mapping entry, loads as Int if it reads as an i32, else
\* as Float if it reads as an f32, else as Bool if it is true or false,
\* else as the String of its text
C18_Disambiguation ==
    pc = "loaded" /\ Parser_load(other)[1] = "Ok"
      => LET ev == Parser_load(other)[2]
         IN  /\ Len(ev) = 3 /\ IsUntagged(ev[2])
                  => out[1] = "Ok" /\ Disambiguated(ev[2][2], out[2])
             /\ Len(ev) = 5 /\ ev[2][1] = "SequenceStart" /\ IsUntagged(ev[3])
                  => /\ out[1] = "Ok"
                     /\ out[2][1] = "Array"
                     /\ Len(out[2][2]) = 1
                     /\ Disambiguated(ev[3][2], out[2][2][1])
             /\ Len(ev) = 6 /\ ev[2][1] = "MappingStart" /\ IsUntagged(ev[3])
                /\ ~ReadsAsNumberOrBool(ev[3][2]) /\ ev[3][2] # <<>>
                /\ IsUntagged(ev[4])
                  => /\ out[1] = "Ok"
                     /\ out[2][1] = "Hash"
                     /\ Len(out[2][2]) = 1
                     /\ out[2][2][1].k = ev[3][2]
                     /\ Disambiguated(ev[4][2], out[2][2][1].v)

\* a text that reads as an i32 and as an f32 has been loaded as an Int
C18_Witness ==
    /\ pc = "loaded"
    /\ parse_i32(other)[1] = "Ok"
    /\ parse_f32(other)[1] = "Ok"
    /\ out[1] = "Ok"
    /\ out[2][1] = "Int"

\* the tag that to_text is to write before a leaf of the variant, <<>> for
\* a variant that is written without a tag
TagOf(variant) ==
    CASE variant = "UInt" -> Utf8(<<"!", "u", " ">>)
      [] variant = "Int64" -> Utf8(<<"!", "l", " ">>)
      [] variant = "UInt64" -> Utf8(<<"!", "u", "l", " ">>)
      [] variant = "Double" -> Utf8(<<"!", "f", "6", "4", " ">>)
      [] variant = "Binary" ->
           Utf8(<<"!", "!", "b", "i", "n", "a", "r", "y", " ">>)
      [] OTHER -> <<>>

Tagged == {"UInt", "Int64", "UInt64", "Double", "Binary"}

\* the text t holds the text s
Contains(t, s) ==
    \E i \in 0..(Len(t) - Len(s)) : SubSeq(t, i + 1, i + Len(s)) = s

\* two leaves of one variant with one value; floats by their numeric bits
SameLeaf(a, b) ==
    /\ a[1] = b[1]
    /\ IF a[1] \in {"Float", "Double"} THEN FloatInto(a[2]) = FloatInto(b[2])
       ELSE a[2] = b[2]

\* the payload of a scalar under the tag of a variant, if it is well formed
PayloadOf(variant, v) ==
    CASE variant = "UInt" -> parse_int_u32(v)
      [] variant = "Int64" -> parse_i64(v)
      [] variant = "UInt64" -> parse_u64(v)
      [] variant = "Double" -> parse_f64(v)
      [] variant = "Binary" -> base64_decode(split_whitespace(v))

\* C19: to_text writes a UInt, Int64, UInt64, Double or Binary leaf behind
\* its tag !u, !l, !ul, !f64 or !!binary, and an Int, Bool or Float leaf
\* without a tag; from_text gives, for every leaf written with one of these
\* tags and for every scalar that carries one with a well-formed payload,
\* that variant with that value
C19_Tags ==
    /\ pc \in {"emitted", "reloaded"}
         => /\ \A n \in Subtrees(doc) :
                 n[1] \in Tagged => Contains(other, TagOf(n[1]))
            /\ doc[1] \in Tagged
                 => starts_with(other, Utf8(<<"-", "-", "-", "\n">>) \o TagOf(doc[1]))
            /\ (\A n \in Subtrees(doc) :
                  n[1] \in {"Int", "Bool", "Float", "Array", "Hash"})
                 => 33 \notin Range(other)
    /\ pc = "reloaded"
         => /\ out[1] = "Ok"
            /\ \A p \in Corresponding(doc, out[2]) :
                 p[1][1] \in Tagged => SameLeaf(p[1], p[2])
    /\ pc = "loaded" /\ Parser_load(other)[1] = "Ok"
       /\ Len(Parser_load(other)[2]) = 3
       /\ Parser_load(other)[2][2][1] = "Scalar"
         => \A variant \in Tagged :
              LET scalar == Parser_load(other)[2][2]
              IN  (TagOf(variant) = Concat(scalar[3]) \o <<32>>
                   /\ PayloadOf(variant, scalar[2])[1] = "Ok")
                    => /\ out[1] = "Ok"
                       /\ out[2][1] = variant
                       /\ PayloadOf(variant, scalar[2])[2] =
                            (IF variant = "Double" THEN FloatInto(out[2][2])
                             ELSE out[2][2])

\* a document with a leaf of every tagged kind among its nodes has been
\* emitted and loaded again
C19_Witness ==
    /\ pc = "reloaded"
    /\ out[1] = "Ok"
    /\ \E n \in Subtrees(doc) : n[1] = "Binary"
    /\ \E n \in Subtrees(doc) : n[1] = "Double"
    /\ Contains(other, TagOf("Binary"))
    /\ Contains(other, TagOf("Double"))

OffsetVariants == {"Binary", "Int64", "UInt64", "Double", "Array", "Hash"}

InlineVariants == {"Bool", "Int", "UInt", "Float", "String"}

\* the children of a container, in slot order
Children(c) ==
    IF c[1] = "Array" THEN c[2] ELSE [i \in 1..Len(c[2]) |-> c[2][i].v]

\* where the 4-byte slot of child i lies in the body of the container c
\* that was emitted at off
SlotOff(c, off, i) ==
    IF c[1] = "Array" THEN Align4(off + 4 + Len(c[2])) + 4 * (i - 1)
    ELSE off + 4 + 8 * (i - 1) + 4

\* the four bytes at off are the offset of a body emitted for the child
HoldsOffsetOf(child, off) ==
    \E j \in 1..Len(Bodies) :
       /\ SubSeq(ret.bytes, off + 1, off + 4) = IntBytes(Bodies[j].off, 4, endian)
       /\ Bodies[j].node = child

\* C20: the writer sends a child of an Array or a Hash to after_nodes
\* exactly if it is a Binary, Int64, UInt64, Double, Array or Hash, and
\* keeps it in the slot exactly if it is a Bool, Int, UInt, Float or
\* String, so that every child is of exactly one class; in the bytes of an
\* encode the slot of a child holds the offset of the child's body exactly
\* if the child is of the first class
C20_Classification ==
    /\ (Returned /\ is_container(doc) /\ version \in ValidVersions) =>
          \A c \in Subtrees(doc) :
             is_container(c) =>
                \A i \in 1..Len(c[2]) :
                   /\ IsAfterNode(Children(c)[i])
                        <=> Children(c)[i][1] \in OffsetVariants
                   /\ ~IsAfterNode(Children(c)[i])
                        <=> Children(c)[i][1] \in InlineVariants
    /\ Encoded =>
          \A b \in 1..Len(Bodies) :
             is_container(Bodies[b].node) =>
                \A i \in 1..Len(Bodies[b].node[2]) :
                   Children(Bodies[b].node)[i][1] \in OffsetVariants
                     <=> HoldsOffsetOf(Children(Bodies[b].node)[i],
                                       SlotOff(Bodies[b].node, Bodies[b].off, i))

(***************************************************************************)
(* C21..C26: the layout of the written image.                              *)
(***************************************************************************)
\* the value table as it stands in the output, read through the header
ValueTable ==
    ReadStringTable(ret.bytes, ReadUnsigned(ret.bytes, 8, 4, endian), endian)

\* the slot at off holds the encoding of the inline child
InlineSlotOk(child, off) ==
    CASE child[1] = "Bool" ->
           ReadUnsigned(ret.bytes, off, 4, endian) = (IF child[2] THEN 1 ELSE 0)
      [] child[1] = "Int" -> ReadSigned(ret.bytes, off, 4, endian) = child[2]
      [] child[1] = "UInt" -> ReadUnsigned(ret.bytes, off, 4, endian) = child[2]
      [] child[1] = "Float" ->
           MsbFirst(ret.bytes, off, 4, endian) = FloatInto(child[2])
      [] child[1] = "String" ->
           /\ ReadUnsigned(ret.bytes, off, 4, endian) < Len(ValueTable)
           /\ ValueTable[ReadUnsigned(ret.bytes, off, 4, endian) + 1] = child[2]
           /\ IsStrictlySorted(ValueTable)
      [] OTHER -> TRUE

\* C21: inline value encoding.  In every Array slot and Hash entry value of
\* a successful encode, a Bool child is the u32 0 or 1, an Int its signed
\* 32-bit value, a UInt its u32 value, a Float the bits of its numeric value
\* in the writer's endianness whatever the node's own endian tag, and a
\* String the index of the entry of the sorted value table that equals it.
C21_InlineValues ==
    Encoded =>
        \A b \in 1..Len(Bodies) :
            is_container(Bodies[b].node) =>
                \A i \in 1..Len(Bodies[b].node[2]) :
                    InlineSlotOk(Children(Bodies[b].node)[i],
                                 SlotOff(Bodies[b].node, Bodies[b].off, i))

\* a Float tagged Little is written by a Little writer, least significant
\* byte first, next to a String
C21_Witness ==
    /\ Encoded
    /\ endian = "Little"
    /\ doc = Byml_Array(<<Byml_Float(F32OneAndHalf, "Little"), Byml_String(StrAB)>>)
    /\ SubSeq(ret.bytes, Len(ret.bytes) - 7, Len(ret.bytes))
         = <<0, 0, 192, 63, 0, 0, 0, 0>>

\* the record of the Array or Hash that was written at off
Regions == ret.writer.regions

\* the tag, the count, the child tags, the padding and the slots of the
\* Array a in the output at S, and the cursor after the writer's skip
ArrayBodyAt(a, S) ==
    /\ ret.bytes[S + 1] = 192
    /\ ReadUnsigned(ret.bytes, S + 1, 3, endian) = Len(a)
    /\ \A i \in 1..Len(a) : ret.bytes[S + 4 + i] = NodeTypeTag(get_type(a[i]))
    /\ \A p \in (S + 4 + Len(a) + 1)..Align4(S + 4 + Len(a)) : ret.bytes[p] = 0
    /\ Align4(S + 4 + Len(a)) + 4 * Len(a) <= Len(ret.bytes)
    /\ \E r \in 1..Len(Regions) :
          /\ Regions[r].start = S
          /\ Regions[r].reserved = Align4(S + 4 + Len(a)) + 4 * Len(a)

\* the slots of the offset children of the Array a at S hold the offsets of
\* the children's bodies
ArraySlotsAt(a, S) ==
    \A i \in 1..Len(a) :
        a[i][1] \in OffsetVariants =>
            HoldsOffsetOf(a[i], Align4(S + 4 + Len(a)) + 4 * (i - 1))

\* C22: Array body layout.  An Array of N children emitted at S is the tag
\* 0xC0 at S, the 24-bit count N at S+1, the N child tags from S+4 on in
\* child order, zeros up to the next multiple of 4, then N 32-bit slots in
\* child order; the writer skips a region of exactly this size before it
\* emits the children; and the slot of an offset child holds the absolute
\* offset of that child's body.
C22_ArrayLayout ==
    Encoded =>
        \A b \in 1..Len(Bodies) :
            Bodies[b].node[1] = "Array" =>
                /\ ArrayBodyAt(Bodies[b].node[2], Bodies[b].off)
                /\ ArraySlotsAt(Bodies[b].node[2], Bodies[b].off)

\* the key table as it stands in the output, read through the header
KeyTable ==
    ReadStringTable(ret.bytes, ReadUnsigned(ret.bytes, 4, 4, endian), endian)

\* the tag, the count and the entries of the Hash h in the output at S; the
\* writer's skip and its write at S both end at S + 4 + 8N
HashBodyAt(h, S) ==
    /\ ret.bytes[S + 1] = 193
    /\ ReadUnsigned(ret.bytes, S + 1, 3, endian) = Len(h)
    /\ S + 4 + 8 * Len(h) <= Len(ret.bytes)
    /\ \E r \in 1..Len(Regions) :
          /\ Regions[r].start = S
          /\ Regions[r].reserved = S + 4 + 8 * Len(h)
          /\ Regions[r].written = S + 4 + 8 * Len(h)
    /\ \A i \in 1..Len(h) :
          /\ ReadUnsigned(ret.bytes, S + 4 + 8 * (i - 1), 3, endian) < Len(KeyTable)
          /\ KeyTable[ReadUnsigned(ret.bytes, S + 4 + 8 * (i - 1), 3, endian) + 1]
               = h[i].k
          /\ ret.bytes[S + 4 + 8 * (i - 1) + 4] = NodeTypeTag(get_type(h[i].v))
    /\ \A i \in 1..(Len(h) - 1) : StrLess(h[i].k, h[i + 1].k)

\* the values of the offset children of the Hash h at S are the offsets of
\* the children's bodies
HashSlotsAt(h, S) ==
    \A i \in 1..Len(h) :
        h[i].v[1] \in OffsetVariants =>
            HoldsOffsetOf(h[i].v, S + 4 + 8 * (i - 1) + 4)

\* C23: Hash body layout.  A Hash of N entries emitted at S is the tag 0xC1,
\* the 24-bit count N, then N entries of 8 bytes {key_idx:u24, tag:u8,
\* value:u32} in key order, from S+4 to S+4+8N exactly; in every entry the
\* string of the key table at key_idx is the entry's key and the tag is the
\* child's variant tag; and the value of an offset child is the absolute
\* offset of its body.
C23_HashLayout ==
    Encoded =>
        \A b \in 1..Len(Bodies) :
            Bodies[b].node[1] = "Hash" =>
                /\ HashBodyAt(Bodies[b].node[2], Bodies[b].off)
                /\ HashSlotsAt(Bodies[b].node[2], Bodies[b].off)

\* offsets[k] of the StringTable at T, as it stands in the output
TableOffset(T, k) == ReadUnsigned(ret.bytes, T + 4 + 4 * k, 4, endian)

\* the StringTable of the strings s in the output at T
TableAt(T, s) ==
    /\ ret.bytes[T + 1] = 194
    /\ ReadUnsigned(ret.bytes, T + 1, 3, endian) = Len(s)
    /\ TableOffset(T, 0) = 4 + 4 * (Len(s) + 1)
    /\ \A k \in 0..Len(s) : TableOffset(T, k) % 4 = 0
    /\ \A k \in 0..(Len(s) - 1) : TableOffset(T, k) < TableOffset(T, k + 1)
    /\ \A i \in 1..Len(s) :
          /\ T + TableOffset(T, i - 1) + Len(s[i]) + 1 <= Len(ret.bytes)
          /\ SubSeq(ret.bytes, T + TableOffset(T, i - 1) + 1,
                    T + TableOffset(T, i - 1) + Len(s[i])) = s[i]
          /\ ret.bytes[T + TableOffset(T, i - 1) + Len(s[i]) + 1] = 0
          /\ TableOffset(T, i - 1) + Len(s[i]) + 1 <= TableOffset(T, i)
    /\ TableOffset(T, Len(s))
         = Align4(TableOffset(T, Len(s) - 1) + Len(s[Len(s)]) + 1)

\* C24: StringTable layout.  A table of N strings emitted at T is the tag
\* 0xC2, the 24-bit count N and N+1 u32 offsets relative to T; offsets[0] is
\* 4 + 4*(N+1), every offset is a multiple of 4, the offsets are strictly
\* increasing, string i stands at T + offsets[i], is followed by a NUL byte
\* and ends before T + offsets[i+1], and the last offset is the 4-aligned
\* end of the last string.
C24_StringTable ==
    Encoded =>
        \A t \in 1..Len(ret.writer.tables) :
            TableAt(ret.writer.tables[t].off, ret.writer.tables[t].strings)

\* a table of a string of 3 bytes, whose NUL ends at a multiple of 4, and one
\* of 4 bytes, whose NUL is followed by padding
C24_Witness ==
    /\ Encoded
    /\ doc = Byml_Array(<<Byml_String(StrABCD), Byml_String(StrABC)>>)
    /\ ret.writer.tables = <<[off |-> 16, strings |-> <<StrABC, StrABCD>>]>>
    /\ TableOffset(16, 0) = 16
    /\ TableOffset(16, 1) = 20
    /\ TableOffset(16, 2) = 28

\* where the tag byte of child i lies in the body of the container c that
\* was emitted at off
TagOff(c, off, i) ==
    IF c[1] = "Array" THEN off + 4 + (i - 1) ELSE off + 4 + 8 * (i - 1) + 3

\* the document holds a Null below its root
HoldsNullChild ==
    \E c \in Subtrees(doc) :
        is_container(c) /\ \E i \in 1..Len(c[2]) : Children(c)[i] = Byml_Null

\* C25: Null children are encodable.  For every Array or Hash root that
\* holds a Null as an element or a value at any depth, to_binary succeeds,
\* the tag of the Null child in its parent is 0xFF, and no body is emitted
\* for it.
C25_NullChildren ==
    (Returned /\ is_container(doc) /\ version \in ValidVersions /\ HoldsNullChild) =>
        /\ ret.ok
        /\ \A b \in 1..Len(Bodies) :
              Bodies[b].node # Byml_Null
              /\ (is_container(Bodies[b].node) =>
                    \A i \in 1..Len(Bodies[b].node[2]) :
                       Children(Bodies[b].node)[i] = Byml_Null =>
                          ret.bytes[TagOff(Bodies[b].node, Bodies[b].off, i) + 1] = 255)

\* the index of the record of the Array or Hash that was written at off
RegionAt(off) == CHOOSE r \in 1..Len(Regions) : Regions[r].start = off

\* the bytes [lo, hi) of a body: of an Array or Hash the region written at
\* its start, of a Binary the length and the bytes, of the others 8 bytes
BodyExtent(b) ==
    [lo |-> b.off,
     hi |-> CASE is_container(b.node) -> Regions[RegionAt(b.off)].written
              [] b.node[1] = "Binary" -> b.off + 4 + Len(b.node[2])
              [] OTHER -> b.off + 8]

\* the bytes of a string table, up to its last offset
TableExtent(t) ==
    [lo |-> t.off,
     hi |-> t.off + ReadUnsigned(ret.writer.buf, t.off + 4 + 4 * Len(t.strings), 4,
                                 ret.writer.endian)]

\* the header, the tables and the bodies
Extents ==
    <<[lo |-> 0, hi |-> 16]>>
    \o [t \in 1..Len(ret.writer.tables) |-> TableExtent(ret.writer.tables[t])]
    \o [b \in 1..Len(Bodies) |-> BodyExtent(Bodies[b])]

\* the Array or Hash that is body k and record r: the write at its start
\* ends where the skip ended, the bodies emitted for its children lie
\* behind that, and the cursor at return is behind them all
SubtreeOk(k, r) ==
    /\ Regions[r].written = Regions[r].reserved
    /\ Regions[r].end >= Regions[r].written
    /\ \A c \in (Regions[r].first + 1)..(k - 1) :
          /\ BodyExtent(Bodies[c]).lo >= Regions[r].reserved
          /\ BodyExtent(Bodies[c]).hi <= Regions[r].end

\* C26: no overlap in the written image.  In every encode the byte ranges
\* of the header, the string tables and the emitted bodies are pairwise
\* disjoint; the write at the start of an Array or Hash fills exactly the
\* region skipped for it and reaches into no child body; and when
\* write_array or write_hash returns, the cursor is at or behind the last
\* byte written for the subtree.
C26_NoOverlap ==
    (Returned /\ is_container(doc) /\ version \in ValidVersions) =>
        /\ \A i, j \in 1..Len(Extents) :
              i < j => \/ Extents[i].hi <= Extents[j].lo
                       \/ Extents[j].hi <= Extents[i].lo
        /\ \A i \in 1..Len(Extents) : Extents[i].lo < Extents[i].hi
        /\ Len(Regions) = Cardinality({k \in 1..Len(Bodies) : is_container(Bodies[k].node)})
        /\ \A k \in 1..Len(Bodies) :
              is_container(Bodies[k].node) => SubtreeOk(k, RegionAt(Bodies[k].off))

\* an Array whose two children are emitted behind its region, the second
\* after padding
C26_Witness ==
    /\ Encoded
    /\ doc = Byml_Array(<<Byml_Binary(<<7>>), Byml_Int64(-5)>>)
    /\ Regions = <<[start |-> 16, reserved |-> 32, written |-> 32, end |-> 48,
                    first |-> 0]>>
    /\ Bodies[1].off = 32
    /\ Bodies[2].off = 40
    /\ Len(ret.bytes) = 48

(***************************************************************************)
(* C27..C29: the text loader.                                              *)
(***************************************************************************)
\* the text that from_text was given is a mapping of scalars whose keys are
\* untagged, pairwise distinct and read as strings
HasStringKeys(entries) ==
    /\ Len(entries) % 2 = 0
    /\ \A i \in 1..Len(entries) :
          i % 2 = 1 =>
             /\ entries[i][3] = NoTag
             /\ ~ReadsAsNumberOrBool(entries[i][2])
             /\ \A j \in 1..Len(entries) :
                   (j % 2 = 1 /\ j # i) => entries[j][2] # entries[i][2]

\* the Hash h has the keys of the entries, each bound to the node of the
\* scalar that followed it
BindsEachKey(h, entries) ==
    /\ Len(h) * 2 = Len(entries)
    /\ \A i \in 1..Len(entries) :
          i % 2 = 1 =>
             \E j \in 1..Len(h) :
                /\ h[j].k = entries[i][2]
                /\ h[j].v = ScalarNode(entries[i + 1][2], entries[i + 1][3])

\* C27: key/value alternation.  The nodes delivered between MappingStart
\* and MappingEnd are taken in turn as key, value, key, value: a mapping of
\* k pairs with distinct string keys, the empty string among them, loads as
\* a Hash of exactly those k entries, each key bound to the node that
\* followed it; so a Hash with such keys that is emitted loads as itself.
C27_Alternation ==
    /\ (pc \in {"loaded", "reloaded"}
          /\ IsScalarMapping(Parser_load(other))
          /\ HasStringKeys(EntryEvents(Parser_load(other)[2])))
        => /\ out[1] = "Ok"
           /\ out[2][1] = "Hash"
           /\ BindsEachKey(out[2][2], EntryEvents(Parser_load(other)[2]))
    /\ (pc = "reloaded" /\ doc \in KeyDocs) => out = Ok(doc)

\* the text emitted for the String s as the root: s itself, or s between
\* double quotes when need_quotes holds
EmittedString(text, s) ==
    IF need_quotes(s)
    THEN /\ Len(text) >= 6 + Len(s)
         /\ SubSeq(text, 1, 5) = Utf8(<<"-", "-", "-", "\n", "quote">>)
         /\ text[Len(text)] = 34
    ELSE text = Utf8(<<"-", "-", "-", "\n">>) \o s

\* C28: text round trip of String leaves.  to_text emits a String as its
\* text, between quotes when need_quotes holds, and from_text reads it back
\* as the same String, also when the text reads as an Int, a Float, a Bool
\* or Null or is empty; so a document of Arrays, Hashes and Strings that is
\* emitted loads as itself.
C28_StringRoundTrip ==
    /\ (pc \in {"emitted", "reloaded"} /\ doc \in StringLeaves)
          => EmittedString(other, doc[2])
    /\ (pc = "reloaded" /\ doc \in StringDocs) => out = Ok(doc)

\* the events delivered so far, and the number of mappings open after them
Delivered == SubSeq(stream, 1, delivered)

OpenMappings(evs) ==
    Cardinality({i \in 1..Len(evs) : evs[i][1] = "MappingStart"})
    - Cardinality({i \in 1..Len(evs) : evs[i][1] = "MappingEnd"})

\* the event on_event is given next is of the kind k
NextIs(k) == delivered < Len(stream) /\ stream[delivered + 1][1] = k

\* C29: loader stack discipline.  On every well-nested event sequence of
\* one document the loader reaches no unreachable!() and no failing unwrap:
\* at DocumentEnd doc_stack holds 0 or 1 node, every insertion finds an
\* Array or a Hash as the parent, the depth of key_stack is the number of
\* open mappings, and exactly one document is appended, Null for an empty
\* document; from_text returns the first document, and an error when there
\* is none.
C29_StackDiscipline ==
    /\ ~loader.panicked
    /\ Len(loader.key_stack) = OpenMappings(Delivered)
    /\ NextIs("DocumentEnd") => Len(loader.doc_stack) \in {0, 1}
    /\ \A i \in 1..(Len(loader.doc_stack) - 1) : is_container(loader.doc_stack[i])
    /\ (NextIs("Scalar") /\ loader.doc_stack # <<>>) =>
          is_container(Last(loader.doc_stack))
    /\ Len(loader.docs) =
          (IF stream # <<>> /\ delivered = Len(stream) THEN 1 ELSE 0)
    /\ (delivered = Len(stream) /\ Len(stream) = 2) => loader.docs = <<Byml_Null>>
    /\ delivered = Len(stream) => loader.doc_stack = <<>>
    /\ pc = "loaded" =>
          out = (IF stream = <<>> THEN IndexError ELSE Ok(loader.docs[1]))

====
